---------------------------- MODULE Spec2Model ----------------------------
(***************************************************************************)
(* A model of astrbot_plugin_pjsk: the fetcher (utils.py), the asset       *)
(* acquirer and the content cache (resource.py), the render orchestrator,  *)
(* the browser session, the pages and the router (render.py), the          *)
(* configuration (config.py) and the plugin's commands (main.py).          *)
(*                                                                         *)
(* The program is modelled component by component.  Every component has    *)
(* its own group of variables and its own specification; a specification   *)
(* leaves the variables of the other components at their idle values.      *)
(***************************************************************************)
EXTENDS Integers, Sequences, FiniteSets, TLC

VARIABLES
    \* ---- fetcher (utils.py)
    environ_proxy,        \* os.environ: the proxy variable read by get_proxy_from_env
    http_client,          \* utils._http_client
    call,                 \* the running activation of async_request
    req,                  \* the arguments of the outermost async_request call
    attempts,             \* the client.get calls made for req, in order
    last_get,             \* the latest GET: the proxy it went through, and
                          \* the proxy the environment named at that moment
    outcome,              \* what the outermost call returned or raised
    \* ---- catalog (resource.py)
    remote,               \* the catalog text the mirrors serve
    persisted,            \* the file STICKER_INFO_CACHE (characters.json)
    LOADED_STICKER_INFO,  \* resource.LOADED_STICKER_INFO
    last_load,            \* what the latest load_sticker_info call did
    \* ---- content cache and render orchestrator (resource.py, render.py)
    hash_seed,            \* the salt of this process's str hash (PYTHONHASHSEED)
    use_cache,            \* config.pjsk_use_cache
    cache,                \* the files of CACHE_FOLDER, by name
    rcall,                \* the running (or latest) render call
    prev,                 \* the call that finished just before rcall in this
                          \* process, when it had the same arguments
    \* ---- data folder, resource preparation and the plugin (resource.py, main.py)
    DATA_FOLDER,          \* resource.DATA_FOLDER and the paths under it are set
    pjsk_clear_cache,     \* config.pjsk_clear_cache
    font_present,         \* where the font file is: "bundled", "data" or "none"
    files,                \* the files of RESOURCE_FOLDER, by image
    _initialized,         \* PJSKPlugin._initialized
    init_pc,              \* the position of PJSKPlugin.initialize
    resource_pc,          \* the position of check_and_download_resource
    font_pc,              \* the position of check_and_download_font
    batch,                \* the check_and_download_stickers call
    tasks,                \* the download tasks of the batch, by image
    cmd,                  \* the running (or latest) command handler
    fetches,              \* what async_request was called for since the
                          \* running (or latest) prepare_resource call began
    first,                \* what an earlier successful prepare_resource call
                          \* left, once prepare_resource is called again
    sem_value,            \* asyncio.Semaphore._value of the batch's limiter
    sem_waiters,          \* asyncio.Semaphore._waiters, first come first
    dl,                   \* the wrapped download coroutines of a batch, in
                          \* the order gather started them
    selection,            \* the select_or_get_random call of the latest
                          \* command or caller: its argument and its result
    resolved,             \* the latest resolve_value call
    kw,                   \* the latest make_sticker_render_kwargs call
    fit,                  \* the latest auto_adjust_font_size call
    _playwright,          \* render._playwright: whether it is set
    _browser,             \* render._browser: the engine, or NoEngine
    _browser_context,     \* render._browser_context, or NoContext
    connected,            \* the engines that are connected
    lock_owner,           \* the task that holds render._browser_lock
    lock_waiters,         \* the tasks that wait for it, first come first
    task,                 \* the callers of get_browser_context and
                          \* close_browser: where each one is
    launches,             \* how many engines chromium.launch() returned
    creations,            \* how many contexts new_context() returned
    disturbed,            \* whether an await raised, an engine got
                          \* disconnected or close_browser was called
    \* ---- pages (render.py)
    pages,                \* the pages that are open in the browser context
    new_pages,            \* how many pages context.new_page() returned
    capt,                 \* the callers of capture_with_playwright: where
                          \* each one is
    \* ---- router (render.py)
    conv,                 \* a path, the URL to_router_url makes of it and
                          \* the file file_router reads for that URL
    request,              \* a request of a page whose routes are installed,
                          \* and what became of it
    \* ---- concurrent renders of one key (resource.py, render.py)
    entry,                \* the cache file of the key, chunk by chunk
    rend,                 \* the render calls for the key: where each one is
    wrote_last,           \* the call whose write_cache returned last
    \* ---- configuration (config.py, main.py)
    plugin_config,        \* config._config: its pjsk_req_retry
    constructed,          \* whether PJSKPlugin.__init__ has run with the
                          \* host's configuration
    fetch_under,          \* the pjsk_req_retry in force when the asset
                          \* acquirer made its latest async_request call
    \* ---- shutdown (main.py)
    terminated            \* whether PJSKPlugin.terminate has returned

fetchVars ==
    <<environ_proxy, http_client, call, req, attempts, last_get, outcome>>
catalogVars == <<remote, persisted, LOADED_STICKER_INFO, last_load>>

renderVars == <<hash_seed, use_cache, cache, rcall, prev>>

pluginVars ==
    <<DATA_FOLDER, pjsk_clear_cache, font_present, files, _initialized,
      init_pc, resource_pc, font_pc, batch, tasks, cmd, fetches, first,
      sem_value, sem_waiters, dl, selection>>

paramVars == <<resolved, kw, fit>>

sessionVars ==
    <<_playwright, _browser, _browser_context, connected, lock_owner,
      lock_waiters, task, launches, creations, disturbed>>

captureVars == <<pages, new_pages, capt>>

routerVars == <<conv>>

\* The variables of the components that follow the browser session
requestVars == <<request>>

raceVars == <<entry, rend, wrote_last>>

configVars == <<plugin_config, constructed, fetch_under>>

shutdownVars == <<terminated>>

extVars ==
    <<captureVars, routerVars, requestVars, raceVars, configVars,
      shutdownVars>>
exceptCapture ==
    <<routerVars, requestVars, raceVars, configVars, shutdownVars>>
exceptRouter ==
    <<captureVars, requestVars, raceVars, configVars, shutdownVars>>
exceptRequest ==
    <<captureVars, routerVars, raceVars, configVars, shutdownVars>>
exceptRace ==
    <<captureVars, routerVars, requestVars, configVars, shutdownVars>>
exceptConfig ==
    <<captureVars, routerVars, requestVars, raceVars, shutdownVars>>
exceptShutdown ==
    <<captureVars, routerVars, requestVars, raceVars, configVars>>

vars ==
    <<fetchVars, catalogVars, renderVars, pluginVars, paramVars, sessionVars,
      extVars>>

(***************************************************************************)
(* Fetcher: get_http_client, close_http_client, async_request              *)
(***************************************************************************)
MaxUrls == 2
MaxRetries == 2

URLS == {"A", "B"}
PROXIES == {"none", "p1", "p2"}          \* "none" is Python's None
NoGet == [sent |-> FALSE, proxy |-> "none", env |-> "none"]

\* The value config.pjsk_req_retry had when `def async_request` was
\* evaluated: utils.py imports the module-level PluginConfig(), which still
\* holds DEFAULT_CONFIG at that time.
retries_default == 1

UrlLists == UNION {[1..n -> URLS] : n \in 0..MaxUrls}

NoClient == [open |-> FALSE, proxy |-> "none"]
NoCall == [active |-> FALSE, urls |-> <<>>, retries |-> 0]
NoOutcome == [kind |-> "none", payload |-> ""]

\* response.read() / .text / .json() of a 2xx answer of `url`
Payload(url) == url

\* utils.get_http_client: the client in use after the call
get_http_client ==
    IF ~http_client.open
    THEN [open |-> TRUE, proxy |-> environ_proxy]
    ELSE http_client

\* The except branch of async_request: the activation that replaces `frame`
\* after its attempt failed; active = FALSE is the bare `raise`.
on_failure_skip_retries(frame) ==
    IF Tail(frame.urls) = <<>>
    THEN NoCall
    ELSE [active |-> TRUE, urls |-> Tail(frame.urls), retries |-> retries_default]

on_failure(frame) ==
    IF frame.retries <= 0
    THEN IF Tail(frame.urls) = <<>>
         THEN NoCall
         ELSE [active |-> TRUE, urls |-> Tail(frame.urls),
               retries |-> retries_default]
    ELSE [frame EXCEPT !.retries = @ - 1]

FetchIdle ==
    /\ environ_proxy = "none"
    /\ http_client = NoClient
    /\ call = NoCall
    /\ req = [urls |-> <<>>, retries |-> 0]
    /\ attempts = <<>>
    /\ last_get = NoGet
    /\ outcome = NoOutcome

FetchInit ==
    /\ environ_proxy \in PROXIES
    /\ http_client = NoClient
    /\ call = NoCall
    /\ req = [urls |-> <<>>, retries |-> 0]
    /\ attempts = <<>>
    /\ last_get = NoGet
    /\ outcome = NoOutcome

\* A caller enters async_request(*urls, retries=r), or omits retries.
CallAsyncRequest ==
    /\ ~call.active
    /\ \E urls \in UrlLists, r \in (0..MaxRetries) \cup {retries_default} :
          /\ req' = [urls |-> urls, retries |-> r]
          /\ attempts' = <<>>
          /\ IF urls = <<>>
             THEN /\ call' = NoCall
                  /\ outcome' = [kind |-> "ValueError", payload |-> ""]
             ELSE /\ call' = [active |-> TRUE, urls |-> urls, retries |-> r]
                  /\ outcome' = NoOutcome
    /\ UNCHANGED <<environ_proxy, http_client, last_get>>
    /\ UNCHANGED <<catalogVars, renderVars, pluginVars, paramVars, sessionVars, extVars>>

\* One activation of the body of async_request: the client is looked up, one
\* GET is made, and the activation returns, raises or hands over to the
\* recursive call.
Attempt ==
    /\ call.active
    /\ LET url == Head(call.urls)
           client == get_http_client
       IN /\ http_client' = client
          /\ last_get' = [sent |-> TRUE, proxy |-> client.proxy,
                          env |-> environ_proxy]
          /\ \E ok \in BOOLEAN :
               /\ attempts' = Append(attempts,
                      [pos |-> Len(req.urls) - Len(call.urls) + 1,
                       url |-> url, ok |-> ok])
               /\ IF ok
                  THEN /\ call' = NoCall
                       /\ outcome' = [kind |-> "ok", payload |-> Payload(url)]
                  ELSE /\ call' = on_failure(call)
                       /\ outcome' = IF on_failure(call).active
                                     THEN NoOutcome
                                     ELSE [kind |-> "error", payload |-> ""]
    /\ UNCHANGED <<environ_proxy, req>>
    /\ UNCHANGED <<catalogVars, renderVars, pluginVars, paramVars, sessionVars, extVars>>

\* The host (or the operator) changes the proxy environment variable.
SetEnvProxy ==
    /\ \E p \in PROXIES \ {environ_proxy} : environ_proxy' = p
    /\ UNCHANGED <<http_client, call, req, attempts, last_get, outcome>>
    /\ UNCHANGED <<catalogVars, renderVars, pluginVars, paramVars, sessionVars, extVars>>

\* utils.close_http_client
close_http_client ==
    /\ http_client.open
    /\ http_client' = NoClient
    /\ UNCHANGED <<environ_proxy, call, req, attempts, last_get, outcome>>
    /\ UNCHANGED <<catalogVars, renderVars, pluginVars, paramVars, sessionVars, extVars>>

FetchNext ==
    \/ CallAsyncRequest
    \/ Attempt
    \/ SetEnvProxy
    \/ close_http_client

\* ---- claims about the fetcher

\* The number of GETs the current request has made on its p-th URL.
AttemptsOn(p) == Cardinality({i \in 1..Len(attempts) : attempts[i].pos = p})

\* C1: async_request tries the URLs strictly in list order starting with
\* urls[0]; with retries = r >= 0 the first URL gets exactly r+1 attempts
\* before the second URL gets any; the request stops at the first success,
\* returns that attempt's payload, and no attempt follows a success.
C1_OrderedAttempts ==
    LET n == Len(attempts) IN
    /\ \A i \in 1..n :
          /\ attempts[i].pos \in 1..Len(req.urls)
          /\ attempts[i].url = req.urls[attempts[i].pos]
    /\ n > 0 => attempts[1].pos = 1
    /\ \A i \in 1..(n - 1) :
          /\ attempts[i + 1].pos \in {attempts[i].pos, attempts[i].pos + 1}
          /\ ~attempts[i].ok
    /\ \A i \in 1..n :
          attempts[i].pos >= 2 =>
             /\ i > req.retries + 1
             /\ AttemptsOn(1) = req.retries + 1
             /\ \A j \in 1..(req.retries + 1) : attempts[j].pos = 1
    /\ (n > 0 /\ attempts[n].ok) =>
          /\ ~call.active
          /\ outcome = [kind |-> "ok", payload |-> Payload(attempts[n].url)]
    /\ outcome.kind = "ok" => (n > 0 /\ attempts[n].ok)
    /\ (outcome.kind = "error" \/ (call.active /\ call.urls # req.urls)) =>
          AttemptsOn(1) = req.retries + 1

\* C1 witness: urls = [A, B], retries = 1, A failed twice, B answered at
\* once: B's payload after exactly three attempts.
C1_Witness ==
    /\ req = [urls |-> <<"A", "B">>, retries |-> 1]
    /\ outcome = [kind |-> "ok", payload |-> Payload("B")]
    /\ Len(attempts) = 3
    /\ <<attempts[1].url, attempts[2].url, attempts[3].url>> = <<"A", "A", "B">>

\* C2: the retry budget is per URL and the same for every URL: when every
\* attempt of async_request(urls, retries = r) failed, each URL of the list
\* was attempted exactly r+1 times.
C2_SameBudgetEveryUrl ==
    outcome.kind = "error" =>
        \A p \in 1..Len(req.urls) : AttemptsOn(p) = req.retries + 1

\* C6: the proxy is resolved from the environment at call time: the first
\* GET of every async_request call goes through the proxy the environment
\* names at that moment, also when an earlier call was made under another
\* proxy setting and nobody closed the shared client since.
C6_ProxyResolvedAtCallTime ==
    (Len(attempts) = 1 /\ last_get.sent) => last_get.proxy = last_get.env


(***************************************************************************)
(* Data folder: the files of the cache folder, ensure_directories          *)
(***************************************************************************)
\* Images and byte strings.  An image is named by the operation and the
\* content it shows; a byte string is a whole image, a proper prefix of one,
\* or b"".  None is Python's None.
NoImage == [op |-> "", what |-> {}]
Whole(img) == [img |-> img, part |-> "all"]
Prefix(img) == [img |-> img, part |-> "head"]
EmptyBytes == [img |-> NoImage, part |-> "empty"]
None == [img |-> NoImage, part |-> "None"]

\* A file of CACHE_FOLDER that does not exist.
NoFile == [exists |-> FALSE, bytes |-> EmptyBytes]

\* resource.ensure_directories, once the folders are set: the cache folder
\* afterwards.  Every file is removed when config.pjsk_clear_cache is set.
ensure_directories(folder) ==
    IF pjsk_clear_cache THEN [n \in DOMAIN folder |-> NoFile] ELSE folder

(***************************************************************************)
(* Catalog: StickerInfo, sort_stickers, load_sticker_info                  *)
(***************************************************************************)
MaxDoc == 3

\* The character names of the documents considered, and what Python does
\* with them: str.lower, and the code point order of str comparison
\* ("Miku" < "ena" < "miku").
Chars == {"Miku", "miku", "ena"}
lower(c) == IF c = "Miku" THEN "miku" ELSE c
StrRank(c) == CASE c = "Miku" -> 1 [] c = "ena" -> 2 [] c = "miku" -> 3
str_le(a, b) == StrRank(a) <= StrRank(b)

\* The "id" an input document gives an entry: any string, here one that
\* depends on the character and is not the entry's rank.
InputId(c) == CASE c = "Miku" -> "7" [] c = "miku" -> "1" [] c = "ena" -> "2"

\* The entries of a catalog document.  The i-th entry of a document names
\* the image i, which tells the entries of one character apart.  An entry
\* that is not valid fails StickerInfo.model_validate.
ValidItem(c, i) == [valid |-> TRUE, id |-> InputId(c), character |-> c, img |-> i]
BadItem(i) == [valid |-> FALSE, id |-> "", character |-> "", img |-> i]

\* A text: a JSON list of entries, or something json.loads rejects.
Garbage == [json |-> FALSE, items |-> <<>>]
JsonDocs ==
    UNION {{[json |-> TRUE,
             items |-> [i \in 1..n |-> IF f[i] = "bad" THEN BadItem(i)
                                       ELSE ValidItem(f[i], i)]] :
            f \in [1..n -> Chars \cup {"bad"}]} : n \in 0..MaxDoc}
Docs == JsonDocs \cup {Garbage}

Absent == [exists |-> FALSE, text |-> Garbage]
File(text) == [exists |-> TRUE, text |-> text]

\* StickerInfo.model_validate(item)
model_validate(item) ==
    [sticker_id |-> item.id, character |-> item.character, img |-> item.img]

\* The key of LOADED_STICKER_INFO.sort
sort_key_raw(x) == x.character

sort_key(x) == lower(x.character)

\* list.sort(key=...): a stable sort (equal keys keep their order).
RECURSIVE insert_sorted(_, _)
insert_sorted(x, s) ==
    IF s = <<>> THEN <<x>>
    ELSE IF str_le(sort_key(Head(s)), sort_key(x))
         THEN <<Head(s)>> \o insert_sorted(x, Tail(s))
         ELSE <<x>> \o s

RECURSIVE list_sort(_)
list_sort(s) ==
    IF s = <<>> THEN <<>>
    ELSE insert_sorted(s[Len(s)], list_sort(SubSeq(s, 1, Len(s) - 1)))

\* The id sort_stickers gives the entry at (1-based) place i
new_id_kept(x, i) == x.sticker_id

new_id(x, i) == ToString(i)

\* resource.sort_stickers, applied to the list `l`
sort_stickers(l) ==
    LET s == list_sort(l)
    IN [i \in 1..Len(s) |-> [s[i] EXCEPT !.sticker_id = new_id(s[i], i)]]

\* The list after `for item in data: LOADED_STICKER_INFO.append(validate(item))`
\* on the cleared list: the loop ends at the first entry that fails.
RECURSIVE validated_prefix(_)
validated_prefix(items) ==
    IF items = <<>> \/ ~Head(items).valid THEN <<>>
    ELSE <<model_validate(Head(items))>> \o validated_prefix(Tail(items))

AllValid(items) == \A i \in 1..Len(items) : items[i].valid

\* load_sticker_info from `LOADED_STICKER_INFO.clear()` on: the catalog it
\* leaves and how it ends.
parse_into_catalog(text) ==
    IF ~text.json
    THEN [result |-> "json_error", catalog |-> <<>>]
    ELSE IF ~AllValid(text.items)
         THEN [result |-> "validation_error",
               catalog |-> validated_prefix(text.items)]
         ELSE [result |-> "ok",
               catalog |-> sort_stickers(validated_prefix(text.items))]

\* What path.write_text leaves on disk: the text; or, when it fails, the
\* file as it was (open failed) or a truncated file (the write failed).
WriteOutcomes == {"ok", "unchanged", "truncated"}
after_write_skipped(file, text, how) == file

after_write(file, text, how) ==
    CASE how = "ok" -> File(text)
      [] how = "unchanged" -> file
      [] how = "truncated" -> File(Garbage)

\* The text load_sticker_info parses when the try block did not complete
fallback_text(copy) == copy.text

NoLoad == [called |-> FALSE, fetched |-> FALSE, written |-> FALSE,
           source |-> "none", result |-> "none"]

CatalogIdle ==
    /\ remote = Garbage
    /\ persisted = Absent
    /\ LOADED_STICKER_INFO = <<>>
    /\ last_load = NoLoad

\* The module after import; the data folder may hold the copy an earlier
\* run of the plugin left.
CatalogInit ==
    /\ remote \in Docs
    /\ persisted \in {Absent, File(Garbage)}
                     \cup {File(d) : d \in {x \in JsonDocs : Len(x.items) = 1}}
    /\ LOADED_STICKER_INFO = <<>>
    /\ last_load = NoLoad

\* resource.load_sticker_info, which starts with ensure_directories (with
\* the folders unset that call raises before anything is done): `fetched`
\* says whether async_request returned
\* the text, `how` what write_text did.
load_sticker_info ==
    /\ DATA_FOLDER
    /\ \E fetched \in BOOLEAN, how \in WriteOutcomes :
         LET copy == IF fetched THEN after_write(persisted, remote, how)
                     ELSE persisted
             tried == fetched /\ how = "ok"
             text == IF tried THEN remote ELSE fallback_text(copy)
             parsed == parse_into_catalog(text)
         IN /\ (~fetched => how = "ok")
            /\ persisted' = copy
            /\ IF ~tried /\ ~copy.exists
               THEN /\ LOADED_STICKER_INFO' = LOADED_STICKER_INFO
                    /\ last_load' =
                         [called |-> TRUE, fetched |-> fetched,
                          written |-> FALSE, source |-> "none",
                          result |-> IF fetched THEN "write_error"
                                     ELSE "fetch_error"]
               ELSE /\ LOADED_STICKER_INFO' = parsed.catalog
                    /\ last_load' =
                         [called |-> TRUE, fetched |-> fetched,
                          written |-> tried,
                          source |-> IF tried THEN "remote" ELSE "copy",
                          result |-> parsed.result]
    /\ cache' = ensure_directories(cache)
    /\ UNCHANGED <<remote, hash_seed, use_cache, rcall, prev>>
    /\ UNCHANGED fetchVars

CatalogNext ==
    \/ load_sticker_info /\ UNCHANGED <<pluginVars, paramVars, sessionVars, extVars>>


\* ---- claims about the catalog

\* `catalog` holds exactly the entries of the document `text`: one entry per
\* item, with the item's character and image.
SameEntries(catalog, text) ==
    /\ Len(catalog) = Len(text.items)
    /\ \A i \in 1..Len(text.items) :
          \E j \in 1..Len(catalog) :
             /\ catalog[j].img = text.items[i].img
             /\ catalog[j].character = text.items[i].character

IsCatalogDocument(text) == text.json /\ AllValid(text.items)

\* C7 as stated: when the fetch fails and a persisted copy exists, the load
\* succeeds with the catalog parsed from that copy, which is left as it was;
\* when the fetch fails and no copy exists, the fetch failure propagates;
\* when the fetch succeeds, the fetched text is persisted verbatim and the
\* catalog is parsed from it.
C7_LoadFallsBackOrPersists ==
    [][load_sticker_info =>
         /\ (~last_load'.fetched /\ persisted.exists) =>
               /\ last_load'.result = "ok"
               /\ persisted' = persisted
               /\ SameEntries(LOADED_STICKER_INFO', persisted.text)
         /\ (~last_load'.fetched /\ ~persisted.exists) =>
               last_load'.result = "fetch_error"
         /\ last_load'.fetched =>
               /\ persisted' = File(remote)
               /\ last_load'.source = "remote"]_vars

\* C7 amended: when the fetch fails and a persisted copy exists, the fetch
\* failure does not propagate, the copy is left as it was and the catalog is
\* parsed from it: the load succeeds if and only if the copy is a valid
\* catalog document; when the fetch fails and no copy exists, the fetch
\* failure propagates; when the fetch succeeds and the text could be written,
\* the fetched text is persisted verbatim and the catalog is parsed from it,
\* the load succeeding if and only if the text is a valid catalog document.
C7_LoadFallsBackOrPersistsIfValid ==
    [][load_sticker_info =>
         /\ (~last_load'.fetched /\ persisted.exists) =>
               /\ persisted' = persisted
               /\ last_load'.source = "copy"
               /\ last_load'.result # "fetch_error"
               /\ last_load'.result = "ok" <=> IsCatalogDocument(persisted.text)
               /\ last_load'.result = "ok" =>
                     SameEntries(LOADED_STICKER_INFO', persisted.text)
         /\ (~last_load'.fetched /\ ~persisted.exists) =>
               last_load'.result = "fetch_error"
         /\ (last_load'.fetched /\ last_load'.written) =>
               /\ persisted' = File(remote)
               /\ last_load'.source = "remote"
               /\ last_load'.result = "ok" <=> IsCatalogDocument(remote)
               /\ last_load'.result = "ok" =>
                     SameEntries(LOADED_STICKER_INFO', remote)]_vars

\* C7 witness: the fetch failed, a persisted copy existed, and the catalog
\* was loaded from it.
C7_Witness ==
    /\ last_load.called /\ ~last_load.fetched
    /\ last_load.source = "copy" /\ last_load.result = "ok"
    /\ persisted.exists /\ Len(persisted.text.items) >= 2
    /\ SameEntries(LOADED_STICKER_INFO, persisted.text)

\* The text the latest load parsed.
LoadedText == IF last_load.source = "remote" THEN remote ELSE persisted.text

\* C8: after every successful load the catalog is sorted by lower-cased
\* character, entries with equal lower-cased character keep their input
\* order, and the i-th entry has the id str(i), whatever the order and the
\* ids of the input document.
C8_SortedStableRenumbered ==
    last_load.result = "ok" =>
        LET L == LOADED_STICKER_INFO IN
        /\ SameEntries(L, LoadedText)
        /\ \A i, j \in 1..Len(L) :
              i < j =>
                 /\ str_le(lower(L[i].character), lower(L[j].character))
                 /\ lower(L[i].character) = lower(L[j].character) =>
                       L[i].img < L[j].img
        /\ \A i \in 1..Len(L) : L[i].sticker_id = ToString(i)

\* C8 witness: the characters [Miku, ena, Miku] are loaded as ena, Miku,
\* Miku with the ids 1, 2, 3.
C8_Witness ==
    /\ last_load.result = "ok"
    /\ Len(LoadedText.items) = 3
    /\ [i \in 1..3 |-> LoadedText.items[i].character] = <<"Miku", "ena", "Miku">>
    /\ LOADED_STICKER_INFO =
          <<[sticker_id |-> "1", character |-> "ena", img |-> 2],
            [sticker_id |-> "2", character |-> "Miku", img |-> 1],
            [sticker_id |-> "3", character |-> "Miku", img |-> 3]>>


(***************************************************************************)
(* Content cache and render orchestrator: make_cache_key, get_cache,       *)
(* write_cache, use_cache, get_sticker, get_character_stickers_grid        *)
(***************************************************************************)
Seeds == {"s0", "s1"}

\* The keyword arguments of get_sticker, in the order they are passed: a
\* sequence of <<name, value>> pairs.
StickerParams ==
    {<<<<"text", "hi">>, <<"font_size", 20>>>>,
     <<<<"text", "yo">>, <<"font_size", 20>>>>}

\* The characters a caller asks a grid for.
GridChars == {"miku", "nobody"}
GridArg(c) == <<<<"character", c>>>>

\* The mapping a dict of keyword arguments denotes (dict equality).
Fields(params) == {params[i] : i \in 1..Len(params)}

\* Every order the keyword arguments `params` can be passed in.
Orders(params) ==
    {q \in [1..Len(params) -> Fields(params)] : Fields(q) = Fields(params)}

\* json.dumps(dict): the items in insertion order.
RECURSIVE json_dumps(_)
json_dumps(params) ==
    IF params = <<>> THEN <<>>
    ELSE <<Head(params)[1], Head(params)[2]>> \o json_dumps(Tail(params))

\* str(hash(text)) for a str: salted with the process's hash seed; taken to
\* be free of collisions.
str_hash(seed, text) == <<"hash", seed>> \o text

\* resource.make_cache_key for a dict: hash(obj) raises TypeError, which is
\* suppressed, and the key is str(hash(json.dumps(obj))).
make_cache_key(params, seed) == str_hash(seed, json_dumps(params))

\* The key of a character grid: the character string itself.
get_character_stickers_grid_cache_key_maker(character) == <<character>>

\* bool(cached) in use_cache's wrapper
truthy_never(b) == FALSE

truthy(b) == b.part \in {"all", "head"}

\* The descriptors get_character_stickers_grid selects
matching(character) ==
    {i \in 1..Len(LOADED_STICKER_INFO) :
        lower(LOADED_STICKER_INFO[i].character) = lower(character)}

\* character[0].upper() + character[1:] in get_all_characters_grid
capitalize(c) == CASE c = "miku" -> "Miku" [] c = "ena" -> "Ena" [] OTHER -> c

\* The character_dict get_all_characters_grid builds from the first n
\* descriptors: a set of <<key, sticker_id>> pairs with one pair per key.
\* A descriptor whose character is not a key yet is stored under the
\* capitalized name, replacing what that name held.
RECURSIVE character_dict(_)
character_dict(n) ==
    IF n = 0 THEN {}
    ELSE LET d == character_dict(n - 1)
             info == LOADED_STICKER_INFO[n]
         IN IF \E e \in d : e[1] = info.character
            THEN d
            ELSE {e \in d : e[1] # capitalize(info.character)}
                 \cup {<<capitalize(info.character), info.sticker_id>>}

\* What a capture of the operation shows.
Image(op, arg) ==
    CASE op = "sticker" -> [op |-> op, what |-> Fields(arg)]
      [] op = "character_grid" ->
            [op |-> op,
             what |-> {<<"id", LOADED_STICKER_INFO[i].sticker_id>> :
                         i \in matching(arg[1][2])}]
      [] op = "all_characters" ->
            [op |-> op, what |-> character_dict(Len(LOADED_STICKER_INFO))]
      [] op = "help" -> [op |-> op, what |-> Fields(arg)]

\* File names f"{key}.{ext}"
Name(key, ext) == [key |-> key, ext |-> ext]
StickerNames ==
    {Name(make_cache_key(p, s), "png") : p \in StickerParams, s \in Seeds}
GridNames ==
    {Name(get_character_stickers_grid_cache_key_maker(c), "jpeg") : c \in GridChars}
AllCharactersName == Name(<<"all_characters">>, "jpeg")
HelpName == Name(<<"help">>, "jpeg")
CacheNames == StickerNames \cup GridNames \cup {AllCharactersName, HelpName}

\* resource.get_cache: what it returns for the file; read_ok says whether
\* read_bytes succeeded.
get_cache(file, read_ok) ==
    IF file.exists /\ read_ok THEN file.bytes ELSE None

\* path.write_bytes in write_cache: the file afterwards.  A failed write
\* leaves the file as it was, an empty file or a prefix of the data.
CacheWriteOutcomes == {"ok", "unchanged", "truncated", "partial"}
write_cache(file, data, how) ==
    CASE how = "ok" -> [exists |-> TRUE, bytes |-> data]
      [] how = "unchanged" -> file
      [] how = "truncated" -> [exists |-> TRUE, bytes |-> EmptyBytes]
      [] how = "partial" -> [exists |-> TRUE, bytes |-> Prefix(data.img)]

NoRender ==
    [pc |-> "idle", op |-> "", arg |-> <<>>, key |-> <<>>, ext |-> "",
     read |-> "none", hit |-> FALSE, captured |-> FALSE, write |-> "none",
     result |-> None]

RenderIdle ==
    /\ hash_seed = "s0"
    /\ use_cache = TRUE
    /\ cache = [n \in CacheNames |-> NoFile]
    /\ rcall = NoRender
    /\ prev = NoRender

\* A fresh process on an empty cache folder.
RenderInit ==
    /\ hash_seed \in Seeds
    /\ use_cache \in BOOLEAN
    /\ cache = [n \in CacheNames |-> NoFile]
    /\ rcall = NoRender
    /\ prev = NoRender

Finished(c) == c.pc \in {"idle", "done", "failed"}

\* A caller enters the wrapper use_cache puts around `op`: the key is made.
enter(op, arg, key, ext) ==
    /\ Finished(rcall)
    /\ prev' = IF rcall.pc = "done" /\ rcall.op = op /\ rcall.arg = arg
               THEN rcall ELSE NoRender
    /\ rcall' = [NoRender EXCEPT !.pc = "lookup", !.op = op, !.arg = arg,
                                 !.key = key, !.ext = ext]
    /\ UNCHANGED <<hash_seed, use_cache, cache>>

\* render.get_sticker(**params)
get_sticker ==
    /\ \E p \in StickerParams :
          enter("sticker", p, make_cache_key(p, hash_seed), "png")
    /\ UNCHANGED <<fetchVars, catalogVars, pluginVars, paramVars, sessionVars, extVars>>

\* render.get_character_stickers_grid(character), for a character of
\* `chars`
get_character_stickers_grid_of(chars) ==
    /\ \E c \in chars :
          enter("character_grid", GridArg(c),
                get_character_stickers_grid_cache_key_maker(c), "jpeg")
    /\ UNCHANGED <<fetchVars, catalogVars, pluginVars, paramVars, sessionVars, extVars>>

get_character_stickers_grid == get_character_stickers_grid_of(GridChars)

\* use_cache's wrapper: the cache is asked when caching is enabled, and a
\* truthy answer is returned as the result.  get_cache calls path.exists()
\* outside its try block: `stat_ok` says whether the stat behind it
\* succeeded or failed with ENOENT; any other OSError of the stat (a name
\* longer than the file system allows, a folder that cannot be searched)
\* is raised by exists() (pathlib of Python 3.11) and leaves get_cache and
\* the wrapper.
CacheLookup ==
    /\ rcall.pc = "lookup"
    /\ LET file == cache[Name(rcall.key, rcall.ext)] IN
       IF use_cache
       THEN \E stat_ok \in BOOLEAN, read_ok \in BOOLEAN :
              LET cached == get_cache(file, read_ok)
                  read == IF ~file.exists THEN "absent"
                          ELSE IF read_ok THEN "ok" ELSE "error"
              IN /\ (~file.exists => read_ok)
                 /\ (~stat_ok => read_ok)
                 /\ rcall' = IF ~stat_ok
                             THEN [rcall EXCEPT !.pc = "failed",
                                                !.read = "stat_error"]
                             ELSE IF truthy(cached)
                             THEN [rcall EXCEPT !.pc = "done", !.read = read,
                                                !.hit = TRUE, !.result = cached]
                             ELSE [rcall EXCEPT !.pc = "capture", !.read = read]
       ELSE rcall' = [rcall EXCEPT !.pc = "capture"]
    /\ UNCHANGED <<hash_seed, use_cache, cache, prev>>
    /\ UNCHANGED <<fetchVars, catalogVars, pluginVars, paramVars, sessionVars, extVars>>

\* `if config.pjsk_use_cache and cache_key` in capture_with_playwright
writes_through_always(flag, key) == key # <<>>

writes_through(flag, key) == flag /\ key # <<>>

\* capture_with_playwright up to the screenshot: it returns the image or
\* raises.
Capture ==
    /\ rcall.pc = "capture"
    /\ \E ok \in BOOLEAN :
          rcall' = IF ~ok THEN [rcall EXCEPT !.pc = "failed"]
                   ELSE [rcall EXCEPT
                           !.pc = IF writes_through(use_cache, rcall.key)
                                  THEN "write" ELSE "done",
                           !.captured = TRUE,
                           !.result = Whole(Image(rcall.op, rcall.arg))]
    /\ UNCHANGED <<hash_seed, use_cache, cache, prev>>
    /\ UNCHANGED <<fetchVars, catalogVars, pluginVars, paramVars, sessionVars, extVars>>

\* The render call after `await write_cache(...)`: write_cache catches what
\* write_bytes raises, and the image is returned.
after_write_cache(c, how) == [c EXCEPT !.pc = "done", !.write = how]

\* The end of capture_with_playwright: the write-through, whose failure is
\* swallowed.
WriteCache ==
    /\ rcall.pc = "write"
    /\ \E how \in CacheWriteOutcomes :
          /\ cache' = [cache EXCEPT ![Name(rcall.key, rcall.ext)] =
                                       write_cache(@, rcall.result, how)]
          /\ rcall' = after_write_cache(rcall, how)
    /\ UNCHANGED <<hash_seed, use_cache, prev>>
    /\ UNCHANGED <<fetchVars, catalogVars, pluginVars, paramVars, sessionVars, extVars>>

\* The process ends and the plugin is started again: a new hash seed, the
\* configuration read anew, the cache folder as it was left.
Restart ==
    /\ hash_seed' \in Seeds
    /\ use_cache' \in BOOLEAN
    /\ rcall' = NoRender
    /\ prev' = NoRender
    /\ UNCHANGED cache
    /\ UNCHANGED <<fetchVars, catalogVars, pluginVars, paramVars, sessionVars, extVars>>

\* render.get_all_characters_grid()
get_all_characters_grid ==
    enter("all_characters", <<>>, <<"all_characters">>, "jpeg")

StickerNext ==
    \/ get_sticker
    \/ CacheLookup
    \/ Capture
    \/ WriteCache
    \/ Restart

GridNext ==
    \/ get_character_stickers_grid
    \/ CacheLookup
    \/ Capture
    \/ WriteCache
    \/ Restart

\* The catalogs the grids are rendered from.
GridCatalogs ==
    {parse_into_catalog(d).catalog :
        d \in {x \in JsonDocs :
                 /\ IsCatalogDocument(x)
                 /\ Len(x.items) \in {0, 2}
                 /\ Len(x.items) = 2 => x.items[1].character = "Miku"}}


\* ---- claims about the cache and the render orchestrator

\* rcall is a finished sticker render that followed, in the same process and
\* with caching enabled, a finished sticker render with identical parameters.
RepeatedSticker ==
    /\ use_cache
    /\ rcall.pc = "done" /\ rcall.op = "sticker"
    /\ prev.pc = "done" /\ prev.op = "sticker" /\ prev.arg = rcall.arg

C4_FingerprintDeterministic ==
    (rcall.op = "sticker" /\ rcall.pc # "idle") =>
        \A n \in StickerNames :
           (cache[n].exists /\ cache[n].bytes.img.what = Fields(rcall.arg))
              => n.key = rcall.key

\* C14: cache storage failures never reach the caller of a render.  A file
\* that is missing or cannot be read is a miss: the call goes on to the
\* capture and, when the capture succeeds, returns the captured bytes.  A
\* write-through that fails changes nothing for the caller: the call
\* returns the captured bytes.  No render call fails because of the cache:
\* a call that failed had reached its capture and failed there.
C14_CacheFailuresSwallowed ==
    /\ rcall.read \in {"absent", "error", "stat_error"} =>
          /\ ~rcall.hit
          /\ rcall.pc \in {"capture", "write", "done", "failed"}
    /\ (rcall.pc = "done" /\ ~rcall.hit) =>
          /\ rcall.captured
          /\ rcall.result = Whole(Image(rcall.op, rcall.arg))
    /\ rcall.pc = "failed" =>
          /\ rcall.read \in {"none", "absent", "ok", "error"}
          /\ ~rcall.captured /\ rcall.write = "none"

\* C15: while caching is disabled no render reads or writes cache storage
\* and every render call that returns has made a capture of its own: of
\* two sticker renders with identical parameters both capture, also when
\* an entry for the fingerprint is on storage from a time when caching was
\* enabled.
C15_DisabledCacheUntouched ==
    /\ [](~use_cache =>
            /\ rcall.read = "none" /\ rcall.write = "none" /\ ~rcall.hit
            /\ rcall.pc = "done" =>
                  /\ rcall.captured
                  /\ rcall.result = Whole(Image(rcall.op, rcall.arg))
            /\ prev.pc = "done" => (prev.captured /\ prev.read = "none"))
    /\ [][~use_cache => cache' = cache]_vars

\* C15 witness: caching is disabled, an entry for the fingerprint is on
\* storage, and the second of two identical sticker renders has captured
\* as the first did.
C15_Witness ==
    /\ ~use_cache
    /\ rcall.pc = "done" /\ rcall.op = "sticker" /\ rcall.captured
    /\ prev.pc = "done" /\ prev.arg = rcall.arg /\ prev.captured
    /\ cache[Name(rcall.key, "png")] =
          [exists |-> TRUE, bytes |-> Whole(Image("sticker", rcall.arg))]

\* C9: the character grid render returns absent when no descriptor matches
\* the character (case-insensitively), and image bytes only when at least
\* one matches.
C9_AbsentWhenNoMatch ==
    (rcall.op = "character_grid" /\ rcall.pc = "done") =>
        (rcall.result = None <=> matching(rcall.arg[1][2]) = {})

(***************************************************************************)
(* Render parameters: resolve_value, qor, auto_adjust_font_size,           *)
(* make_sticker_render_kwargs                                              *)
(***************************************************************************)
MaxRaw == 3

\* The characters of the option values considered: "x" stands for any
\* character that is neither a sign, a digit nor a point.
ValueChars == {"^", "-", "1", "2", ".", "x"}
Digits == {"0", "1", "2", "3", "4", "5", "6", "7", "8", "9"}

\* A str is a sequence of characters; NoValue is None where a str is
\* expected.
NoValue == <<"None">>

RECURSIVE Words(_)
Words(n) ==
    IF n = 0 THEN {<<>>}
    ELSE LET shorter == Words(n - 1)
         IN  shorter \cup {Append(w, c) : w \in {v \in shorter : Len(v) = n - 1},
                                          c \in ValueChars}

\* The values resolve_value is called with.
RawValues == Words(MaxRaw) \cup {NoValue}

\* A float is written as a whole number of units of 10^-MaxRaw, which holds
\* every decimal the strings considered can spell.
FloatUnit == 10 ^ MaxRaw

DigitValue(c) ==
    CASE c = "0" -> 0 [] c = "1" -> 1 [] c = "2" -> 2 [] c = "3" -> 3
      [] c = "4" -> 4 [] c = "5" -> 5 [] c = "6" -> 6 [] c = "7" -> 7
      [] c = "8" -> 8 [] c = "9" -> 9

RECURSIVE digits_value(_)
digits_value(s) ==
    IF s = <<>> THEN 0
    ELSE 10 * digits_value(SubSeq(s, 1, Len(s) - 1)) + DigitValue(s[Len(s)])

unsigned(s) == IF s # <<>> /\ s[1] \in {"-", "+"} THEN Tail(s) ELSE s
sign(s) == IF s # <<>> /\ s[1] = "-" THEN -1 ELSE 1

Converted(v) == [ok |-> TRUE, v |-> v]
ValueError == [ok |-> FALSE, v |-> 0]

\* int(str): an optional sign and one or more digits, or ValueError.
int(s) ==
    LET body == unsigned(s)
    IN  IF body # <<>> /\ \A i \in 1..Len(body) : body[i] \in Digits
        THEN Converted(sign(s) * digits_value(body))
        ELSE ValueError

\* float(str): an optional sign, digits with at most one point among them
\* and at least one digit, or ValueError.
float(s) ==
    LET body == unsigned(s)
        points == {i \in 1..Len(body) : body[i] = "."}
        figures == SelectSeq(body, LAMBDA c : c # ".")
        decimals == IF points = {} THEN 0
                    ELSE Len(body) - (CHOOSE i \in points : TRUE)
    IN  IF /\ Cardinality(points) <= 1
           /\ figures # <<>>
           /\ \A i \in 1..Len(figures) : figures[i] \in Digits
        THEN Converted(sign(s) * digits_value(figures)
                         * 10 ^ (MaxRaw - decimals))
        ELSE ValueError

\* expected_type(value) in resolve_value
ExpectedTypes == {"int", "float"}
expected(expected_type, s) ==
    IF expected_type = "int" THEN int(s) ELSE float(s)

\* What a resolve_value call does: it returns a value, which is the
\* default, the converted string or the default plus the converted offset,
\* or it raises ResolveValueError(error).
Returned(how, v) == [how |-> how, value |-> v, error |-> NoValue]
Raised(value) == [how |-> "raised", value |-> 0, error |-> value]

\* `except Exception as e: raise ResolveValueError(value) from e`
except_Exception_default(value, default) == Returned("default", default)

except_Exception(value, default) == Raised(value)

\* utils.resolve_value(value, default, expected_type); `not value` holds of
\* None and of "".
resolve_value(value, default, expected_type) ==
    IF value \in {NoValue, <<>>} THEN Returned("default", default)
    ELSE IF value[1] = "^"
    THEN LET offset == expected(expected_type, Tail(value))
         IN  IF offset.ok THEN Returned("offset", default + offset.v)
             ELSE except_Exception(value, default)
    ELSE LET n == expected(expected_type, value)
         IN  IF n.ok THEN Returned("value", n.v)
             ELSE except_Exception(value, default)

\* An Optional[T] argument: <<>> is None, <<v>> is the value v.
Unset == <<>>
Some(v) == <<v>>

\* utils.qor(a, b)
qor_default(a, b) == b

qor(a, b) == IF a # Unset THEN a[1] ELSE b

\* render.py's constants
DEFAULT_WIDTH == 296
DEFAULT_HEIGHT == 256
DEFAULT_STROKE_WIDTH == 9
DEFAULT_LINE_SPACING == (13 * FloatUnit) \div 10
DEFAULT_STROKE_COLOR == "#ffffff"
DefaultMinSize == 8

\* The texts of the model and `for x in text`: "zenkaku" stands for a
\* full-width character.
Texts == {"hi", "yo", "wide"}
characters(text) ==
    CASE text = "hi" -> <<"h", "i">>
      [] text = "yo" -> <<"y", "o">>
      [] text = "wide" -> <<"zenkaku", "zenkaku", "zenkaku", "zenkaku">>
is_full_width(c) == c = "zenkaku"

\* The rotations considered, in degrees (as floats), with their cosine and
\* sine: math.cos(math.radians(90)) is 6.1e-17 where the model has 0.
Rotations == {0, 90 * FloatUnit}
cos(rotate_deg) == IF rotate_deg = 0 THEN 1 ELSE 0
sin(rotate_deg) == IF rotate_deg = 0 THEN 0 ELSE 1
abs(n) == IF n < 0 THEN -n ELSE n

\* render.calc_approximate_text_width, counted in half pixels because a
\* half-width character is size / 2 wide.
RECURSIVE sum_widths(_, _)
sum_widths(chars, size) ==
    IF chars = <<>> THEN 0
    ELSE (IF is_full_width(Head(chars)) THEN 2 * size ELSE size)
           + sum_widths(Tail(chars), size)

calc_approximate_text_width(text, size, rotate_deg) ==
    abs(sum_widths(characters(text), size) * cos(rotate_deg))
      + abs(2 * size * sin(rotate_deg))

\* `calc_approximate_text_width(...) * multiplier <= width` with the
\* multiplier 1.2: 12 * half pixels <= 20 * width.
fits(text, size, rotate_deg, width) ==
    calc_approximate_text_width(text, size, rotate_deg) * 12 <= width * 20

\* `while size > min_size` in auto_adjust_font_size
loops_while_positive(size, min_size) == size > 0

loops_while(size, min_size) == size > min_size

\* render.auto_adjust_font_size(text, size, rotate_deg, width, min_size)
RECURSIVE auto_adjust_font_size(_, _, _, _, _)
auto_adjust_font_size(text, size, rotate_deg, width, min_size) ==
    IF loops_while(size, min_size) /\ ~fits(text, size, rotate_deg, width)
    THEN auto_adjust_font_size(text, size - 1, rotate_deg, width, min_size)
    ELSE size

\* math.degrees(default_text.r / 10) for the one rotation the descriptors
\* of the model have, r = 0.
default_rotate(default_text) == 0

\* render.make_sticker_render_kwargs(info, text=..., ..., auto_adjust=...):
\* `o` has the optional arguments by name.
make_sticker_render_kwargs(info, o, auto_adjust) ==
    LET default_text == info.default_text
        text == qor(o.text, default_text.text)
        rotate == qor(o.rotate, default_rotate(default_text))
        font_size ==
            IF auto_adjust
            THEN auto_adjust_font_size(text, default_text.s, rotate,
                                       DEFAULT_WIDTH, DefaultMinSize)
            ELSE qor(o.font_size, default_text.s)
    IN  [image |-> info.img,
         x |-> qor(o.x, default_text.x),
         y |-> qor(o.y, default_text.y),
         text |-> text,
         font_color |-> qor(o.font_color, info.color),
         font_size |-> font_size,
         rotate |-> rotate,
         stroke_color |-> qor(o.stroke_color, DEFAULT_STROKE_COLOR),
         stroke_width |-> qor(o.stroke_width, DEFAULT_STROKE_WIDTH),
         line_spacing |-> qor(o.line_spacing, DEFAULT_LINE_SPACING),
         width |-> DEFAULT_WIDTH,
         height |-> DEFAULT_HEIGHT]

\* The fields of a descriptor that the catalog model leaves out, with the
\* default sizes considered.
DefaultSizes == {6, 8, 20, 120}
default_text_of(size) == [text |-> "hi", x |-> 20, y |-> 10, r |-> 0, s |-> size]
info_of(img, size) ==
    [img |-> img, color |-> "#112233", default_text |-> default_text_of(size)]
Infos == {info_of(1, size) : size \in DefaultSizes}

\* The optional arguments a caller gives make_sticker_render_kwargs.
Overrides ==
    [text : {Unset, Some("wide")},
     x : {Unset, Some(5)},
     y : {Unset, Some(7)},
     rotate : {Unset, Some(90 * FloatUnit)},
     font_size : {Unset, Some(40)},
     font_color : {Unset, Some("#000000")},
     stroke_width : {Unset, Some(3)},
     stroke_color : {Unset, Some("#00ff00")},
     line_spacing : {Unset, Some(FloatUnit)}]
NoOverrides ==
    [text |-> Unset, x |-> Unset, y |-> Unset, rotate |-> Unset,
     font_size |-> Unset, font_color |-> Unset, stroke_width |-> Unset,
     stroke_color |-> Unset, line_spacing |-> Unset]

\* The call of each function that is in progress or was made last: `by`
\* is "" when there is none, and `out` is what the call returned once `pc`
\* is "returned".
Resolved(by, value, default, expected_type) ==
    [by |-> by, pc |-> "returned", value |-> value, default |-> default,
     expected_type |-> expected_type,
     out |-> resolve_value(value, default, expected_type)]
Kwargs(by, info, o, auto_adjust) ==
    [by |-> by, pc |-> "returned", info |-> info, o |-> o,
     auto_adjust |-> auto_adjust,
     out |-> make_sticker_render_kwargs(info, o, auto_adjust)]
Fit(by, text, size, rotate_deg, width, min_size) ==
    [by |-> by, pc |-> "returned", text |-> text, size |-> size,
     rotate_deg |-> rotate_deg, width |-> width, min_size |-> min_size,
     out |-> auto_adjust_font_size(text, size, rotate_deg, width, min_size)]
NoResolved == Resolved("", NoValue, 0, "int")
NoKwargs == Kwargs("", info_of(1, 20), NoOverrides, FALSE)
NoFit == Fit("", "hi", 20, 0, DEFAULT_WIDTH, DefaultMinSize)

ParamIdle ==
    /\ resolved = NoResolved
    /\ kw = NoKwargs
    /\ fit = NoFit

\* The defaults, widths, sizes and lower bounds the callers pass.
ResolveDefaults == {20}
FitWidths == {0, 40, DEFAULT_WIDTH}
FitSizes == {5, 8, 9, 20}
FitMinSizes == {1, DefaultMinSize}

\* The calls of resolve_value a caller makes.
ResolveCalls ==
    {[by |-> "caller", pc |-> "called", value |-> value,
      default |-> IF expected_type = "int" THEN default
                  ELSE default * FloatUnit,
      expected_type |-> expected_type, out |-> Returned("", 0)] :
        value \in RawValues, default \in ResolveDefaults,
        expected_type \in ExpectedTypes}

\* The calls of make_sticker_render_kwargs a caller makes.
KwargsCalls ==
    {[by |-> "caller", pc |-> "called", info |-> info, o |-> o,
      auto_adjust |-> auto_adjust, out |-> NoKwargs.out] :
        info \in Infos, o \in Overrides, auto_adjust \in BOOLEAN}

\* The calls of auto_adjust_font_size a caller makes.
FitCalls ==
    {[by |-> "caller", pc |-> "called", text |-> text, size |-> size,
      rotate_deg |-> rotate_deg, width |-> width, min_size |-> min_size,
      out |-> 0] :
        text \in Texts, size \in FitSizes, rotate_deg \in Rotations,
        width \in FitWidths, min_size \in FitMinSizes}

\* A caller has called one of the two functions of the font size.
ParamsInit ==
    /\ resolved = NoResolved
    /\ \/ kw \in KwargsCalls /\ fit = NoFit
       \/ kw = NoKwargs /\ fit \in FitCalls

\* resolve_value(value, default, expected_type) called by a caller
resolve ==
    /\ resolved.pc = "called"
    /\ resolved' = Resolved(resolved.by, resolved.value, resolved.default,
                            resolved.expected_type)
    /\ UNCHANGED <<kw, fit>>
    /\ UNCHANGED <<fetchVars, catalogVars, renderVars, pluginVars, sessionVars, extVars>>

\* make_sticker_render_kwargs(info, ..., auto_adjust=...) called by a caller
make_kwargs ==
    /\ kw.pc = "called"
    /\ kw' = Kwargs(kw.by, kw.info, kw.o, kw.auto_adjust)
    /\ UNCHANGED <<resolved, fit>>
    /\ UNCHANGED <<fetchVars, catalogVars, renderVars, pluginVars, sessionVars, extVars>>

\* auto_adjust_font_size(text, size, rotate_deg, width, min_size) called by
\* a caller
auto_fit ==
    /\ fit.pc = "called"
    /\ fit' = Fit(fit.by, fit.text, fit.size, fit.rotate_deg, fit.width,
                  fit.min_size)
    /\ UNCHANGED <<resolved, kw>>
    /\ UNCHANGED <<fetchVars, catalogVars, renderVars, pluginVars, sessionVars, extVars>>

ParamsNext ==
    \/ make_kwargs
    \/ auto_fit

(***************************************************************************)
(* Browser session: get_browser_context, close_browser                     *)
(***************************************************************************)
MaxTasks == 2
MaxLaunches == 2
MaxContexts == 3

\* The tasks that call the two functions, the engines chromium.launch()
\* returns and the contexts new_context() returns.
Tasks == 1..MaxTasks
NoTask == 0
Engines == 1..MaxLaunches
NoEngine == 0
NoContext == [engine |-> NoEngine, id |-> 0]

\* A task outside both functions.
Outside ==
    [fn |-> "", pc |-> "idle", waited |-> FALSE, result |-> NoContext]

\* The positions inside `async with _browser_lock`.
InProgress ==
    {"start", "launch", "new_context", "context_close", "browser_close",
     "stop"}

SessionIdle ==
    /\ _playwright = FALSE
    /\ _browser = NoEngine
    /\ _browser_context = NoContext
    /\ connected = {}
    /\ lock_owner = NoTask
    /\ lock_waiters = <<>>
    /\ task = [t \in Tasks |-> Outside]
    /\ launches = 0
    /\ creations = 0
    /\ disturbed = FALSE

\* Module import: no session exists.
SessionInit == SessionIdle

\* asyncio.Lock.acquire returns at once when the lock is free and no task
\* waits for it.
lock_free_always(owner, waiters) == TRUE

lock_free(owner, waiters) == owner = NoTask /\ waiters = <<>>

\* asyncio.Lock.release at the end of `async with`: the first waiter, if
\* any, is woken and has the lock.
release ==
    IF lock_waiters = <<>>
    THEN lock_owner' = NoTask /\ lock_waiters' = lock_waiters
    ELSE lock_owner' = Head(lock_waiters) /\ lock_waiters' = Tail(lock_waiters)

\* _browser.is_connected()
is_connected(engine) == engine \in connected

\* Where get_browser_context goes on once _playwright is set.
after_start(engine) == IF engine = NoEngine THEN "launch" ELSE "new_context"

\* get_browser_context from the entry of `async with _browser_lock` to its
\* first await, or to its return when the session is live.
get_body(t, waited) ==
    LET both == _browser_context # NoContext /\ _browser # NoEngine
    IN  IF both /\ is_connected(_browser)
        THEN /\ task' = [task EXCEPT ![t] =
                           [fn |-> "get", pc |-> "returned",
                            waited |-> waited, result |-> _browser_context]]
             /\ UNCHANGED <<_browser, _browser_context>>
             /\ release
        ELSE LET engine == IF both THEN NoEngine ELSE _browser
             IN  /\ _browser' = engine
                 /\ _browser_context' =
                      IF both THEN NoContext ELSE _browser_context
                 /\ task' = [task EXCEPT ![t] =
                               [fn |-> "get",
                                pc |-> IF ~_playwright THEN "start"
                                       ELSE after_start(engine),
                                waited |-> waited, result |-> NoContext]]
                 /\ lock_owner' = t
                 /\ UNCHANGED lock_waiters

\* Where close_browser goes on: to the next object that is not None.
after_close(context, engine, playwright) ==
    IF context # NoContext THEN "context_close"
    ELSE IF engine # NoEngine THEN "browser_close"
    ELSE IF playwright THEN "stop"
    ELSE "returned"

\* close_browser from the entry of `async with _browser_lock` to its first
\* await, or to its return when there is nothing to close.
close_body(t, waited) ==
    LET pc == after_close(_browser_context, _browser, _playwright)
    IN  /\ task' = [task EXCEPT ![t] =
                      [fn |-> "close", pc |-> pc, waited |-> waited,
                       result |-> NoContext]]
        /\ IF pc = "returned" THEN release
           ELSE lock_owner' = t /\ UNCHANGED lock_waiters

\* A task calls get_browser_context (a capture does): it takes the lock or
\* waits for it.
call_get_browser_context(t) ==
    /\ task[t].pc = "idle"
    /\ IF lock_free(lock_owner, lock_waiters)
       THEN get_body(t, FALSE)
       ELSE /\ task' = [task EXCEPT ![t] =
                          [fn |-> "get", pc |-> "waiting", waited |-> TRUE,
                           result |-> NoContext]]
            /\ lock_waiters' = Append(lock_waiters, t)
            /\ UNCHANGED <<lock_owner, _browser, _browser_context>>
    /\ UNCHANGED <<_playwright, connected, launches, creations, disturbed>>
    /\ UNCHANGED <<fetchVars, catalogVars, renderVars, pluginVars, paramVars,
                 extVars>>

\* A task calls close_browser.
call_close_browser(t) ==
    /\ task[t].pc = "idle"
    /\ IF lock_free(lock_owner, lock_waiters)
       THEN close_body(t, FALSE)
       ELSE /\ task' = [task EXCEPT ![t] =
                          [fn |-> "close", pc |-> "waiting", waited |-> TRUE,
                           result |-> NoContext]]
            /\ lock_waiters' = Append(lock_waiters, t)
            /\ UNCHANGED lock_owner
    /\ disturbed' = TRUE
    /\ UNCHANGED <<_playwright, _browser, _browser_context, connected,
                   launches, creations>>
    /\ UNCHANGED <<fetchVars, catalogVars, renderVars, pluginVars, paramVars,
                 extVars>>

\* A task that waited for the lock has it and goes on.
wake(t) ==
    /\ task[t].pc = "waiting"
    /\ lock_owner = t
    /\ IF task[t].fn = "get"
       THEN get_body(t, TRUE)
       ELSE close_body(t, TRUE) /\ UNCHANGED <<_browser, _browser_context>>
    /\ UNCHANGED <<_playwright, connected, launches, creations, disturbed>>
    /\ UNCHANGED <<fetchVars, catalogVars, renderVars, pluginVars, paramVars,
                 extVars>>

\* An await inside get_browser_context raises: the lock is released and the
\* session variables stay as they are.
raises(t) ==
    /\ task' = [task EXCEPT ![t].pc = "raised"]
    /\ release
    /\ disturbed' = TRUE

\* `await async_playwright().start()` returns
start_returns(t) ==
    /\ task[t].fn = "get" /\ task[t].pc = "start"
    /\ _playwright' = TRUE
    /\ task' = [task EXCEPT ![t].pc = after_start(_browser)]
    /\ UNCHANGED <<_browser, _browser_context, connected, lock_owner,
                   lock_waiters, launches, creations, disturbed>>
    /\ UNCHANGED <<fetchVars, catalogVars, renderVars, pluginVars, paramVars,
                 extVars>>

\* `await async_playwright().start()` raises
start_raises(t) ==
    /\ task[t].fn = "get" /\ task[t].pc = "start"
    /\ raises(t)
    /\ UNCHANGED <<_playwright, _browser, _browser_context, connected,
                   launches, creations>>
    /\ UNCHANGED <<fetchVars, catalogVars, renderVars, pluginVars, paramVars,
                 extVars>>

\* `await _playwright.chromium.launch()` returns a new, connected engine,
\* and new_context is called on it.
launch_returns(t) ==
    /\ task[t].fn = "get" /\ task[t].pc = "launch"
    /\ launches < MaxLaunches
    /\ launches' = launches + 1
    /\ _browser' = launches + 1
    /\ connected' = connected \cup {launches + 1}
    /\ task' = [task EXCEPT ![t].pc = "new_context"]
    /\ UNCHANGED <<_playwright, _browser_context, lock_owner, lock_waiters,
                   creations, disturbed>>
    /\ UNCHANGED <<fetchVars, catalogVars, renderVars, pluginVars, paramVars,
                 extVars>>

\* `await _playwright.chromium.launch()` raises
launch_raises(t) ==
    /\ task[t].fn = "get" /\ task[t].pc = "launch"
    /\ raises(t)
    /\ UNCHANGED <<_playwright, _browser, _browser_context, connected,
                   launches, creations>>
    /\ UNCHANGED <<fetchVars, catalogVars, renderVars, pluginVars, paramVars,
                 extVars>>

\* `await _browser.new_context(...)` returns a context of the engine, which
\* takes a connected engine; get_browser_context returns it.
new_context_returns(t) ==
    /\ task[t].fn = "get" /\ task[t].pc = "new_context"
    /\ is_connected(_browser)
    /\ creations < MaxContexts
    /\ creations' = creations + 1
    /\ _browser_context' = [engine |-> _browser, id |-> creations + 1]
    /\ task' = [task EXCEPT ![t].pc = "returned",
                            ![t].result = _browser_context']
    /\ release
    /\ UNCHANGED <<_playwright, _browser, connected, launches, disturbed>>
    /\ UNCHANGED <<fetchVars, catalogVars, renderVars, pluginVars, paramVars,
                 extVars>>

\* `await _browser.new_context(...)` raises: always on a disconnected
\* engine, and possibly on a connected one.
new_context_raises(t) ==
    /\ task[t].fn = "get" /\ task[t].pc = "new_context"
    /\ raises(t)
    /\ UNCHANGED <<_playwright, _browser, _browser_context, connected,
                   launches, creations>>
    /\ UNCHANGED <<fetchVars, catalogVars, renderVars, pluginVars, paramVars,
                 extVars>>

\* One of the awaits of close_browser is over, whether it returned or
\* raised: the variable is set to None and close_browser goes on.
close_step(t) ==
    /\ task[t].fn = "close"
    /\ task[t].pc \in {"context_close", "browser_close", "stop"}
    /\ LET context == NoContext
           engine == IF task[t].pc = "context_close" THEN _browser
                     ELSE NoEngine
           playwright == IF task[t].pc = "stop" THEN FALSE ELSE _playwright
           pc == after_close(context, engine, playwright)
       IN  /\ _browser_context' = context
           /\ _browser' = engine
           /\ _playwright' = playwright
           /\ \E closed \in BOOLEAN :
                connected' = IF task[t].pc = "browser_close" /\ closed
                             THEN connected \ {_browser}
                             ELSE connected
           /\ task' = [task EXCEPT ![t].pc = pc]
           /\ IF pc = "returned" THEN release
              ELSE UNCHANGED <<lock_owner, lock_waiters>>
    /\ UNCHANGED <<launches, creations, disturbed>>
    /\ UNCHANGED <<fetchVars, catalogVars, renderVars, pluginVars, paramVars,
                 extVars>>

\* The engine of the session crashes or is closed from outside.  The last
\* engine the model can launch stays connected.
disconnect ==
    /\ _browser # NoEngine
    /\ is_connected(_browser)
    /\ launches < MaxLaunches
    /\ connected' = connected \ {_browser}
    /\ disturbed' = TRUE
    /\ UNCHANGED <<_playwright, _browser, _browser_context, lock_owner,
                   lock_waiters, task, launches, creations>>
    /\ UNCHANGED <<fetchVars, catalogVars, renderVars, pluginVars, paramVars,
                 extVars>>

\* The caller goes on after the return or the exception.
goes_on(t) ==
    /\ task[t].pc \in {"returned", "raised"}
    /\ task' = [task EXCEPT ![t] = Outside]
    /\ UNCHANGED <<_playwright, _browser, _browser_context, connected,
                   lock_owner, lock_waiters, launches, creations, disturbed>>
    /\ UNCHANGED <<fetchVars, catalogVars, renderVars, pluginVars, paramVars,
                 extVars>>

\* The captures without close_browser, which the plugin never calls.
RecoveryNext ==
    \/ \E t \in Tasks : call_get_browser_context(t)
    \/ \E t \in Tasks : wake(t)
    \/ \E t \in Tasks : start_returns(t)
    \/ \E t \in Tasks : start_raises(t)
    \/ \E t \in Tasks : launch_returns(t)
    \/ \E t \in Tasks : launch_raises(t)
    \/ \E t \in Tasks : new_context_returns(t)
    \/ \E t \in Tasks : new_context_raises(t)
    \/ \E t \in Tasks : goes_on(t)
    \/ disconnect

SessionNext ==
    \/ \E t \in Tasks : call_get_browser_context(t)
    \/ \E t \in Tasks : call_close_browser(t)
    \/ \E t \in Tasks : wake(t)
    \/ \E t \in Tasks : start_returns(t)
    \/ \E t \in Tasks : start_raises(t)
    \/ \E t \in Tasks : launch_returns(t)
    \/ \E t \in Tasks : launch_raises(t)
    \/ \E t \in Tasks : new_context_returns(t)
    \/ \E t \in Tasks : new_context_raises(t)
    \/ \E t \in Tasks : close_step(t)
    \/ \E t \in Tasks : goes_on(t)
    \/ disconnect

(***************************************************************************)
(* Resource preparation and the plugin: init_data_folder, prepare_resource,*)
(* check_and_download_stickers, check_and_download_font, select_or_get_    *)
(* random, PJSKPlugin.initialize, pjsk_generate, pjsk_list                 *)
(***************************************************************************)
\* asyncio.Semaphore(10) in check_and_download_stickers
SemaphoreLimit == 10

\* The images a catalog names.
Images == 1..MaxDoc

NoTasks == [i \in Images |-> "none"]
NoFiles == [i \in Images |-> "absent"]
NoSnapshot ==
    [taken |-> FALSE, remote |-> Garbage, persisted |-> Absent,
     catalog |-> <<>>, files |-> NoFiles, font_present |-> "none"]
\* A descriptor that stands for Python's None, an id string that stands for
\* None, and the state before any select_or_get_random call.
NoSticker == [sticker_id |-> "", character |-> "", img |-> 0]
NoId == "None"
NoSelection == [by |-> "", sticker_id |-> NoId, result |-> NoSticker]
NoCommand == [name |-> "", pc |-> "none", selected |-> FALSE, reply |-> ""]

\* The module and the plugin object of a host that has set the data folder
\* and has not started initialize().
PluginIdle ==
    /\ DATA_FOLDER = TRUE
    /\ pjsk_clear_cache = FALSE
    /\ font_present = "bundled"
    /\ files = NoFiles
    /\ _initialized = FALSE
    /\ init_pc = "new"
    /\ resource_pc = "idle"
    /\ font_pc = "idle"
    /\ batch = "idle"
    /\ tasks = NoTasks
    /\ cmd = NoCommand
    /\ fetches = {}
    /\ first = NoSnapshot
    /\ sem_value = SemaphoreLimit
    /\ sem_waiters = <<>>
    /\ dl = <<>>
    /\ selection = NoSelection

\* The catalogs the mirrors serve while the plugin is prepared.
PluginDocs ==
    {d \in JsonDocs :
        /\ IsCatalogDocument(d)
        /\ Len(d.items) = 2
        /\ \A i \in 1..Len(d.items) : d.items[i].character = "Miku"}

\* The plugin object after __init__, in a process that has just imported
\* the modules: the folders are unset until init_data_folder is called, the
\* data folder may hold an image an earlier run downloaded.
PluginInit ==
    /\ DATA_FOLDER \in BOOLEAN
    /\ pjsk_clear_cache \in BOOLEAN
    /\ font_present \in {"bundled", "none"}
    /\ files \in {NoFiles, [NoFiles EXCEPT ![1] = "whole"]}
    /\ _initialized = FALSE
    /\ init_pc = "new"
    /\ resource_pc = "idle"
    /\ font_pc = "idle"
    /\ batch = "idle"
    /\ tasks = NoTasks
    /\ cmd = NoCommand
    /\ fetches = {}
    /\ first = NoSnapshot
    /\ sem_value = SemaphoreLimit
    /\ sem_waiters = <<>>
    /\ dl = <<>>
    /\ selection = NoSelection

\* resource.init_data_folder(data_dir)
init_data_folder ==
    /\ DATA_FOLDER' = TRUE
    /\ UNCHANGED <<pjsk_clear_cache, font_present, files, _initialized,
                   init_pc, resource_pc, font_pc, batch, tasks, cmd>>
    /\ UNCHANGED <<fetchVars, catalogVars, renderVars>>
    /\ UNCHANGED <<fetches, first>>
    /\ UNCHANGED <<sem_value, sem_waiters, dl>>
    /\ UNCHANGED <<selection, paramVars, sessionVars, extVars>>

\* PJSKPlugin.initialize up to the call of prepare_resource:
\* _ensure_playwright_browser catches every failure of its own.
initialize ==
    /\ init_pc = "new"
    /\ init_pc' = "prepare"
    /\ UNCHANGED <<DATA_FOLDER, pjsk_clear_cache, font_present, files,
                   _initialized, resource_pc, font_pc, batch, tasks, cmd>>
    /\ UNCHANGED <<fetchVars, catalogVars, renderVars>>
    /\ UNCHANGED <<fetches, first>>
    /\ UNCHANGED <<sem_value, sem_waiters, dl>>
    /\ UNCHANGED <<selection, paramVars, sessionVars, extVars>>

\* resource.prepare_resource up to asyncio.gather: ensure_directories raises
\* when the folders are unset (and initialize re-raises), otherwise the two
\* coroutines are started.
prepare_resource ==
    /\ init_pc = "prepare"
    /\ IF ~DATA_FOLDER
       THEN /\ init_pc' = "failed"
            /\ UNCHANGED <<resource_pc, font_pc, cache>>
       ELSE /\ init_pc' = "gather"
            /\ resource_pc' = "load"
            /\ font_pc' = "running"
            /\ cache' = ensure_directories(cache)
    /\ fetches' = {}
    /\ UNCHANGED <<DATA_FOLDER, pjsk_clear_cache, font_present, files,
                   _initialized, batch, tasks, cmd>>
    /\ UNCHANGED <<hash_seed, use_cache, rcall, prev>>
    /\ UNCHANGED <<fetchVars, catalogVars>>
    /\ UNCHANGED first
    /\ UNCHANGED <<sem_value, sem_waiters, dl>>
    /\ UNCHANGED <<selection, paramVars, sessionVars, extVars>>

\* resource.check_and_download_resource up to the end of load_sticker_info
check_and_download_resource ==
    /\ resource_pc = "load"
    /\ load_sticker_info
    /\ fetches' = fetches \cup {<<"catalog", 0>>}
    /\ resource_pc' = IF last_load'.result = "ok" THEN "stickers" ELSE "failed"
    /\ UNCHANGED <<DATA_FOLDER, pjsk_clear_cache, font_present, files,
                   _initialized, init_pc, font_pc, batch, tasks, cmd>>
    /\ UNCHANGED first
    /\ UNCHANGED <<sem_value, sem_waiters, dl>>
    /\ UNCHANGED <<selection, paramVars, sessionVars, extVars>>

\* Every image of the catalog, present or not.
missing_everything ==
    {LOADED_STICKER_INFO[i].img : i \in 1..Len(LOADED_STICKER_INFO)}

\* The images of the catalog that RESOURCE_FOLDER does not hold.
missing ==
    {LOADED_STICKER_INFO[i].img : i \in 1..Len(LOADED_STICKER_INFO)}
       \cap {i \in Images : files[i] = "absent"}

\* resource.check_and_download_stickers up to asyncio.gather(*tasks): one
\* download per missing image, and nothing to wait for when there is none.
check_and_download_stickers ==
    /\ resource_pc = "stickers"
    /\ batch = "idle"
    /\ IF missing = {}
       THEN /\ batch' = "returned"
            /\ resource_pc' = "done"
            /\ UNCHANGED tasks
       ELSE /\ batch' = "gathering"
            /\ tasks' = [i \in Images |-> IF i \in missing THEN "pending"
                                          ELSE "none"]
            /\ UNCHANGED resource_pc
    /\ UNCHANGED <<DATA_FOLDER, pjsk_clear_cache, font_present, files,
                   _initialized, init_pc, font_pc, cmd>>
    /\ UNCHANGED <<fetchVars, catalogVars, renderVars>>
    /\ UNCHANGED <<fetches, first>>
    /\ UNCHANGED <<sem_value, sem_waiters, dl>>
    /\ UNCHANGED <<selection, paramVars, sessionVars, extVars>>

\* with_semaphore: a download enters `async with semaphore` when a slot is
\* free.
acquire ==
    /\ \E i \in Images :
         /\ tasks[i] = "pending"
         /\ Cardinality({j \in Images : tasks[j] = "running"}) < SemaphoreLimit
         /\ tasks' = [tasks EXCEPT ![i] = "running"]
    /\ UNCHANGED <<DATA_FOLDER, pjsk_clear_cache, font_present, files,
                   _initialized, init_pc, resource_pc, font_pc, batch, cmd>>
    /\ UNCHANGED <<fetchVars, catalogVars, renderVars>>
    /\ UNCHANGED <<fetches, first>>
    /\ UNCHANGED <<sem_value, sem_waiters, dl>>
    /\ UNCHANGED <<selection, paramVars, sessionVars, extVars>>

\* download(path_str) inside the semaphore: the image is fetched and
\* written, or the fetch fails, or the write fails and leaves a part of the
\* file.  The slot is released either way.
DownloadOutcomes == {"ok", "fetch_error", "write_error"}
download ==
    /\ \E i \in Images, how \in DownloadOutcomes :
         /\ tasks[i] = "running"
         /\ tasks' = [tasks EXCEPT ![i] = IF how = "ok" THEN "done"
                                          ELSE "failed"]
         /\ files' = [files EXCEPT ![i] = CASE how = "ok" -> "whole"
                                            [] how = "fetch_error" -> @
                                            [] how = "write_error" -> "partial"]
         /\ fetches' = fetches \cup {<<"img", i>>}
    /\ UNCHANGED <<DATA_FOLDER, pjsk_clear_cache, font_present,
                   _initialized, init_pc, resource_pc, font_pc, batch, cmd>>
    /\ UNCHANGED <<fetchVars, catalogVars, renderVars>>
    /\ UNCHANGED first
    /\ UNCHANGED <<sem_value, sem_waiters, dl>>
    /\ UNCHANGED <<selection, paramVars, sessionVars, extVars>>

\* asyncio.gather(*tasks) in check_and_download_stickers returns when every
\* download has returned.
gather_returns ==
    /\ batch = "gathering"
    /\ \A i \in Images : tasks[i] \in {"none", "done"}
    /\ batch' = "returned"
    /\ resource_pc' = "done"
    /\ UNCHANGED <<DATA_FOLDER, pjsk_clear_cache, font_present, files,
                   _initialized, init_pc, font_pc, tasks, cmd>>
    /\ UNCHANGED <<fetchVars, catalogVars, renderVars>>
    /\ UNCHANGED <<fetches, first>>
    /\ UNCHANGED <<sem_value, sem_waiters, dl>>
    /\ UNCHANGED <<selection, paramVars, sessionVars, extVars>>

\* asyncio.gather(*tasks) without return_exceptions: the first exception of
\* a download is raised to the caller; the other downloads are left as
\* they are and go on.
gather_raises ==
    /\ batch = "gathering"
    /\ \E i \in Images : tasks[i] = "failed"
    /\ batch' = "raised"
    /\ resource_pc' = "failed"
    /\ UNCHANGED <<DATA_FOLDER, pjsk_clear_cache, font_present, files,
                   _initialized, init_pc, font_pc, tasks, cmd>>
    /\ UNCHANGED <<fetchVars, catalogVars, renderVars>>
    /\ UNCHANGED <<fetches, first>>
    /\ UNCHANGED <<sem_value, sem_waiters, dl>>
    /\ UNCHANGED <<selection, paramVars, sessionVars, extVars>>

\* resource.check_and_download_font
check_and_download_font ==
    /\ font_pc = "running"
    /\ IF font_present # "none"
       THEN font_pc' = "done" /\ UNCHANGED <<font_present, fetches>>
       ELSE /\ fetches' = fetches \cup {<<"font", 0>>}
            /\ \E ok \in BOOLEAN :
                 IF ok THEN font_pc' = "done" /\ font_present' = "data"
                 ELSE font_pc' = "failed" /\ UNCHANGED font_present
    /\ UNCHANGED <<DATA_FOLDER, pjsk_clear_cache, files, _initialized,
                   init_pc, resource_pc, batch, tasks, cmd>>
    /\ UNCHANGED <<fetchVars, catalogVars, renderVars>>
    /\ UNCHANGED first
    /\ UNCHANGED <<sem_value, sem_waiters, dl>>
    /\ UNCHANGED <<selection, paramVars, sessionVars, extVars>>

\* The end of PJSKPlugin.initialize when prepare_resource returned: both
\* coroutines of its gather have returned.
initialize_returns ==
    /\ init_pc = "gather"
    /\ resource_pc = "done" /\ font_pc = "done"
    /\ _initialized' = TRUE
    /\ init_pc' = "done"
    /\ UNCHANGED <<DATA_FOLDER, pjsk_clear_cache, font_present, files,
                   resource_pc, font_pc, batch, tasks, cmd>>
    /\ UNCHANGED <<fetchVars, catalogVars, renderVars>>
    /\ UNCHANGED <<fetches, first>>
    /\ UNCHANGED <<sem_value, sem_waiters, dl>>
    /\ UNCHANGED <<selection, paramVars, sessionVars, extVars>>

\* The end of PJSKPlugin.initialize when prepare_resource raised: one of
\* the coroutines of its gather has raised, the other goes on.
initialize_raises ==
    /\ init_pc = "gather"
    /\ resource_pc = "failed" \/ font_pc = "failed"
    /\ init_pc' = "failed"
    /\ UNCHANGED <<DATA_FOLDER, pjsk_clear_cache, font_present, files,
                   _initialized, resource_pc, font_pc, batch, tasks, cmd>>
    /\ UNCHANGED <<fetchVars, catalogVars, renderVars>>
    /\ UNCHANGED <<fetches, first>>
    /\ UNCHANGED <<sem_value, sem_waiters, dl>>
    /\ UNCHANGED <<selection, paramVars, sessionVars, extVars>>

\* bool(sticker_id) of an Optional[str]: None and "" are falsy.
id_given_not_none(sticker_id) == sticker_id # NoId

id_given(sticker_id) == sticker_id \notin {NoId, ""}

\* resource.select_or_get_random(sticker_id): the descriptors it may return
\* (NoSticker is None).
select_or_get_random(sticker_id) ==
    LET with_id == {i \in 1..Len(LOADED_STICKER_INFO) :
                       LOADED_STICKER_INFO[i].sticker_id = sticker_id}
    IN IF id_given(sticker_id)
       THEN IF with_id = {} THEN {NoSticker}
            ELSE {LOADED_STICKER_INFO[CHOOSE i \in with_id :
                                         \A j \in with_id : i <= j]}
       ELSE IF LOADED_STICKER_INFO # <<>>
            THEN {LOADED_STICKER_INFO[i] : i \in 1..Len(LOADED_STICKER_INFO)}
            ELSE {NoSticker}

\* The values of args["id"] after parse_args: None, or a word of the
\* message (never empty): an id of the catalog, an unknown id.
CommandIds == {NoId, "1", "9"}

\* The characters pjsk_list is asked for ("" is no character).
CommandChars == {"", "miku"}

\* `if not self._initialized` at the head of both command handlers
not_initialized_never(flag) == FALSE

not_initialized(flag) == ~flag

Replied(name, selected, reply) ==
    [name |-> name, pc |-> "replied", selected |-> selected, reply |-> reply]
Rendering(name, selected) ==
    [name |-> name, pc |-> "rendering", selected |-> selected, reply |-> ""]

\* The option values parse_args leaves in args for a pjsk command: a word
\* of the message or None (the text and the colours are left out: an
\* Optional that is never resolved).
Args(xs, sizes) ==
    [text : {Unset}, color : {Unset}, stroke_color : {Unset},
     x : xs, y : {NoValue}, rotate : {NoValue}, size : sizes,
     stroke_width : {NoValue}, line_spacing : {NoValue}]

\* The commands of the plugin as a whole give no size or one that cannot
\* be parsed; those of the plugin after initialize() returned also give a
\* size that can be parsed and an x that cannot.
CommandArgs == Args({NoValue}, {NoValue, <<"^", "x">>})
ResolveArgs == Args({NoValue, <<"x">>}, {NoValue, <<"2", "0">>, <<"^", "x">>})

\* The resolve_value calls of pjsk_generate in the order Python evaluates
\* the keyword arguments of make_sticker_render_kwargs.
resolve_values(args, default_text) ==
    <<Resolved("pjsk", args.x, default_text.x, "int"),
      Resolved("pjsk", args.y, default_text.y, "int"),
      Resolved("pjsk", args.rotate, default_rotate(default_text), "float"),
      Resolved("pjsk", args.size, default_text.s, "int"),
      Resolved("pjsk", args.stroke_width, DEFAULT_STROKE_WIDTH, "int"),
      Resolved("pjsk", args.line_spacing, DEFAULT_LINE_SPACING, "float")>>

\* The calls up to and including the first that raises.
made(calls) ==
    LET raising == {i \in 1..Len(calls) : calls[i].out.how = "raised"}
    IN  IF raising = {} THEN calls
        ELSE SubSeq(calls, 1, CHOOSE i \in raising :
                                  \A j \in raising : i <= j)

\* The optional arguments pjsk_generate passes make_sticker_render_kwargs
\* once every value is resolved.
overrides(args, info, calls) ==
    [text |-> Some(qor(args.text, info.default_text.text)),
     x |-> Some(calls[1].out.value),
     y |-> Some(calls[2].out.value),
     rotate |-> Some(calls[3].out.value),
     font_size |-> Some(calls[4].out.value),
     font_color |-> Some(qor(args.color, info.color)),
     stroke_width |-> Some(calls[5].out.value),
     stroke_color |-> Some(qor(args.stroke_color, DEFAULT_STROKE_COLOR)),
     line_spacing |-> Some(calls[6].out.value)]

\* get_sticker(**kw): the keyword arguments the render model keeps.
kwargs(out) == <<<<"text", out.text>>, <<"font_size", out.font_size>>>>

\* PJSKPlugin.pjsk_generate up to `await get_sticker(**kw)`, for a message
\* whose options are among `given`: `help` says whether the arguments ask
\* for the help text.
pjsk(given) ==
    /\ cmd.pc # "rendering"
    /\ fit' = NoFit
    /\ UNCHANGED <<sessionVars, extVars>>
    /\ IF not_initialized(_initialized)
       THEN /\ cmd' = Replied("pjsk", FALSE, "initializing")
            /\ selection' = NoSelection
            /\ resolved' = NoResolved /\ kw' = NoKwargs
            /\ UNCHANGED renderVars
       ELSE \E help \in BOOLEAN :
         IF help
         THEN /\ cmd' = Replied("pjsk", FALSE, "help")
              /\ selection' = NoSelection
              /\ resolved' = NoResolved /\ kw' = NoKwargs
              /\ UNCHANGED renderVars
         ELSE \E sticker_id \in CommandIds :
              \E selected_sticker \in select_or_get_random(sticker_id) :
              /\ selection' = [by |-> "pjsk", sticker_id |-> sticker_id,
                               result |-> selected_sticker]
              /\ IF selected_sticker = NoSticker
                THEN /\ cmd' = Replied("pjsk", TRUE,
                                       IF id_given(sticker_id)
                                       THEN "id_not_found"
                                       ELSE "no_stickers")
                     /\ resolved' = NoResolved /\ kw' = NoKwargs
                     /\ UNCHANGED renderVars
                ELSE \E args \in given :
                     LET info == info_of(selected_sticker.img, 20)
                         calls == made(resolve_values(args, info.default_text))
                         last == calls[Len(calls)]
                     IN  /\ resolved' = last
                         /\ IF last.out.how = "raised"
                            THEN /\ cmd' = Replied("pjsk", TRUE, "value_error")
                                 /\ kw' = NoKwargs
                                 /\ UNCHANGED renderVars
                            ELSE /\ cmd' = Rendering("pjsk", TRUE)
                                 /\ kw' = Kwargs("pjsk", info,
                                                 overrides(args, info, calls),
                                                 args.size = NoValue)
                                 /\ LET p == kwargs(kw'.out)
                                    IN  enter("sticker", p,
                                              make_cache_key(p, hash_seed),
                                              "png")
    /\ UNCHANGED <<DATA_FOLDER, pjsk_clear_cache, font_present, files,
                   _initialized, init_pc, resource_pc, font_pc, batch, tasks>>
    /\ UNCHANGED <<fetchVars, catalogVars>>
    /\ UNCHANGED <<fetches, first>>
    /\ UNCHANGED <<sem_value, sem_waiters, dl>>

pjsk_generate == pjsk(CommandArgs)
pjsk_generate_resolving == pjsk(ResolveArgs)

\* PJSKPlugin.pjsk_list up to the await of the grid: "" is no character.
pjsk_list ==
    /\ cmd.pc # "rendering"
    /\ resolved' = NoResolved /\ kw' = NoKwargs /\ fit' = NoFit
    /\ UNCHANGED <<sessionVars, extVars>>
    /\ selection' = NoSelection
    /\ IF not_initialized(_initialized)
       THEN /\ cmd' = Replied("pjsk_list", FALSE, "initializing")
            /\ UNCHANGED renderVars
       ELSE /\ cmd' = Rendering("pjsk_list", FALSE)
            /\ \E character \in CommandChars :
                 IF character # ""
                 THEN enter("character_grid", GridArg(character),
                            get_character_stickers_grid_cache_key_maker(character),
                            "jpeg")
                 ELSE get_all_characters_grid
    /\ UNCHANGED <<DATA_FOLDER, pjsk_clear_cache, font_present, files,
                   _initialized, init_pc, resource_pc, font_pc, batch, tasks>>
    /\ UNCHANGED <<fetchVars, catalogVars>>
    /\ UNCHANGED <<fetches, first>>
    /\ UNCHANGED <<sem_value, sem_waiters, dl>>

\* The rest of a command handler once the render returned or raised: the
\* image is sent, or the error reply, or (pjsk_list with a character) the
\* reply that the character has no stickers when the bytes are falsy.
send_result ==
    /\ cmd.pc = "rendering"
    /\ rcall.pc \in {"done", "failed"}
    /\ cmd' = [cmd EXCEPT
                 !.pc = "replied",
                 !.reply = IF rcall.pc = "failed" THEN "error"
                           ELSE IF rcall.op = "character_grid"
                                   /\ ~truthy(rcall.result)
                                THEN "character_not_found"
                                ELSE "image"]
    /\ UNCHANGED <<DATA_FOLDER, pjsk_clear_cache, font_present, files,
                   _initialized, init_pc, resource_pc, font_pc, batch, tasks>>
    /\ UNCHANGED <<fetchVars, catalogVars, renderVars>>
    /\ UNCHANGED <<fetches, first>>
    /\ UNCHANGED <<sem_value, sem_waiters, dl>>
    /\ UNCHANGED <<selection, paramVars, sessionVars, extVars>>

\* ---- the limiter of a batch: asyncio.Semaphore(10) and with_semaphore

\* The largest number of missing images of a batch.
MaxBatch == 12
DownloadIds == 1..MaxBatch

Holding == {i \in DOMAIN dl : dl[i] = "holding"}
Waiting == {i \in DOMAIN dl : dl[i] = "waiting"}
Released == {i \in DOMAIN dl : dl[i] = "released"}

\* asyncio.Semaphore.locked(): no slot is free, or a coroutine waits.
locked_never(value, waiters) == FALSE

locked(value, waiters) == value = 0 \/ waiters # <<>>

\* The numbers of missing images considered: one, as many as the limiter
\* has slots, and more.
BatchSizes == {1, SemaphoreLimit, MaxBatch}

\* check_and_download_stickers at asyncio.gather(*tasks) with n missing
\* images: a new semaphore and n wrapped coroutines not started yet.
LimiterInit ==
    /\ DATA_FOLDER = TRUE
    /\ pjsk_clear_cache = FALSE
    /\ font_present = "bundled"
    /\ files = NoFiles
    /\ _initialized = FALSE
    /\ init_pc = "gather"
    /\ resource_pc = "stickers"
    /\ font_pc = "done"
    /\ batch = "gathering"
    /\ tasks = NoTasks
    /\ cmd = NoCommand
    /\ fetches = {}
    /\ first = NoSnapshot
    /\ sem_value = SemaphoreLimit
    /\ sem_waiters = <<>>
    /\ dl \in {[i \in 1..n |-> "new"] : n \in BatchSizes}
    /\ selection = NoSelection

\* with_semaphore's wrapper up to the end of semaphore.acquire(): the next
\* coroutine gather started takes a slot when the semaphore is not locked,
\* and queues behind the waiters otherwise.
wrapper_enter ==
    /\ \E i \in DOMAIN dl :
         /\ dl[i] = "new"
         /\ \A j \in 1..(i - 1) : dl[j] # "new"
         /\ IF ~locked(sem_value, sem_waiters)
            THEN /\ sem_value' = sem_value - 1
                 /\ dl' = [dl EXCEPT ![i] = "holding"]
                 /\ UNCHANGED sem_waiters
            ELSE /\ sem_waiters' = Append(sem_waiters, i)
                 /\ dl' = [dl EXCEPT ![i] = "waiting"]
                 /\ UNCHANGED sem_value
    /\ UNCHANGED <<DATA_FOLDER, pjsk_clear_cache, font_present, files,
                   _initialized, init_pc, resource_pc, font_pc, batch, tasks,
                   cmd, fetches, first>>
    /\ UNCHANGED <<fetchVars, catalogVars, renderVars>>
    /\ UNCHANGED <<selection, paramVars, sessionVars, extVars>>

\* The end of the wrapper: download returned (ok) or raised, and the
\* `async with` releases the slot.  Semaphore.release() gives the slot to
\* the first waiter when there is one.  gather raises to the caller of the
\* batch at the first download that raised, and returns when the last
\* download returned.
wrapper_exit ==
    /\ \E i \in Holding, ok \in BOOLEAN :
         /\ IF sem_waiters = <<>>
            THEN /\ sem_value' = sem_value + 1
                 /\ dl' = [dl EXCEPT ![i] = "released"]
                 /\ UNCHANGED sem_waiters
            ELSE /\ sem_waiters' = Tail(sem_waiters)
                 /\ dl' = [dl EXCEPT ![i] = "released",
                                     ![Head(sem_waiters)] = "holding"]
                 /\ UNCHANGED sem_value
         /\ batch' = IF batch # "gathering" THEN batch
                     ELSE IF ~ok THEN "raised"
                     ELSE IF Released \cup {i} = DOMAIN dl THEN "returned"
                     ELSE batch
    /\ UNCHANGED <<DATA_FOLDER, pjsk_clear_cache, font_present, files,
                   _initialized, init_pc, resource_pc, font_pc, tasks,
                   cmd, fetches, first>>
    /\ UNCHANGED <<fetchVars, catalogVars, renderVars>>
    /\ UNCHANGED <<selection, paramVars, sessionVars, extVars>>

LimiterNext ==
    \/ wrapper_enter
    \/ wrapper_exit

\* The catalogs the mirrors serve while prepare_resource is called twice.
PrepareDocs ==
    {d \in JsonDocs :
        /\ IsCatalogDocument(d)
        /\ Len(d.items) \in {1, 2}
        /\ \A i \in 1..Len(d.items) : d.items[i].character = "Miku"}

\* The mirrors start to serve another catalog before the second call of
\* prepare_resource fetches it.
mirror_update ==
    /\ init_pc = "prepare"
    /\ first.taken
    /\ remote = first.remote
    /\ remote' \in PrepareDocs \ {remote}
    /\ UNCHANGED <<persisted, LOADED_STICKER_INFO, last_load>>
    /\ UNCHANGED <<fetchVars, renderVars, pluginVars, paramVars, sessionVars, extVars>>

\* A caller awaits prepare_resource() again after a call that returned
\* without error: new coroutines, the module state and the folders as the
\* first call left them.
prepare_resource_again ==
    /\ init_pc = "done"
    /\ ~first.taken
    /\ first' = [taken |-> TRUE, remote |-> remote, persisted |-> persisted,
                 catalog |-> LOADED_STICKER_INFO, files |-> files,
                 font_present |-> font_present]
    /\ init_pc' = "prepare"
    /\ resource_pc' = "idle"
    /\ font_pc' = "idle"
    /\ batch' = "idle"
    /\ tasks' = NoTasks
    /\ fetches' = {}
    /\ UNCHANGED <<DATA_FOLDER, pjsk_clear_cache, font_present, files,
                   _initialized, cmd>>
    /\ UNCHANGED <<fetchVars, catalogVars, renderVars>>
    /\ UNCHANGED <<sem_value, sem_waiters, dl>>
    /\ UNCHANGED <<selection, paramVars, sessionVars, extVars>>

PrepareNext ==
    \/ init_data_folder
    \/ initialize
    \/ prepare_resource
    \/ check_and_download_resource
    \/ check_and_download_stickers
    \/ acquire
    \/ download
    \/ gather_returns
    \/ gather_raises
    \/ check_and_download_font
    \/ initialize_returns
    \/ initialize_raises
    \/ mirror_update
    \/ prepare_resource_again

\* ---- select_or_get_random called on a loaded catalog

\* The ids a caller passes: those of the commands and the empty string.
SelectIds == CommandIds \cup {""}

\* The catalogs a successful load leaves, of at most two descriptors.
SelectCatalogs ==
    {parse_into_catalog(d).catalog :
        d \in {x \in JsonDocs : IsCatalogDocument(x) /\ Len(x.items) <= 2}}

\* The plugin after initialize() returned.
SelectInit ==
    /\ DATA_FOLDER = TRUE
    /\ pjsk_clear_cache = FALSE
    /\ font_present = "bundled"
    /\ files = [i \in Images |-> IF i <= Len(LOADED_STICKER_INFO)
                                  THEN "whole" ELSE "absent"]
    /\ _initialized = TRUE
    /\ init_pc = "done"
    /\ resource_pc = "done"
    /\ font_pc = "done"
    /\ batch = "returned"
    /\ tasks = NoTasks
    /\ cmd = NoCommand
    /\ fetches = {<<"catalog", 0>>}
    /\ first = NoSnapshot
    /\ sem_value = SemaphoreLimit
    /\ sem_waiters = <<>>
    /\ dl = <<>>
    /\ selection = NoSelection

\* A caller other than the command handler calls select_or_get_random.
select ==
    /\ \E sticker_id \in SelectIds :
         \E x \in select_or_get_random(sticker_id) :
            selection' = [by |-> "caller", sticker_id |-> sticker_id,
                          result |-> x]
    /\ UNCHANGED <<DATA_FOLDER, pjsk_clear_cache, font_present, files,
                   _initialized, init_pc, resource_pc, font_pc, batch, tasks,
                   cmd, fetches, first, sem_value, sem_waiters, dl>>
    /\ UNCHANGED <<fetchVars, catalogVars, renderVars, paramVars, sessionVars, extVars>>

SelectNext ==
    \/ select
    \/ pjsk_generate
    \/ CacheLookup
    \/ Capture
    \/ WriteCache
    \/ send_result

\* The plugin after initialize() returned, its commands and the direct
\* callers of resolve_value.
ResolveNext ==
    \/ resolve
    \/ pjsk_generate_resolving
    \/ CacheLookup
    \/ Capture
    \/ WriteCache
    \/ send_result

PluginNext ==
    \/ init_data_folder
    \/ initialize
    \/ prepare_resource
    \/ check_and_download_resource
    \/ check_and_download_stickers
    \/ acquire
    \/ download
    \/ gather_returns
    \/ gather_raises
    \/ check_and_download_font
    \/ initialize_returns
    \/ initialize_raises
    \/ pjsk_generate
    \/ pjsk_list
    \/ CacheLookup
    \/ Capture
    \/ WriteCache
    \/ send_result

\* ---- claims about resource preparation and the plugin

\* C5: in check_and_download_stickers the failure of one image download
\* cancels no other download, and the batch call fails only after every
\* other download of the batch has completed: at the moment the call
\* raises, no download of the batch is still pending or in flight.
C5_BatchFailsAfterAllComplete ==
    [][(batch = "gathering" /\ batch' = "raised") =>
          \A i \in Images : tasks'[i] \notin {"pending", "running"}]_vars

\* C10: no render is started before resource preparation has completed
\* successfully.  While _initialized is false no step touches a render call;
\* a command handled then selects no sticker, leaves the render call and
\* the cache folder alone and only replies that the plugin is initializing;
\* and _initialized becomes true only in a step taken after both coroutines
\* of prepare_resource returned without error.
C10_NoRenderBeforeInitialized ==
    [][/\ ~_initialized =>
            /\ rcall' = rcall
            /\ cmd' # cmd =>
                  /\ cmd' \in {Replied("pjsk", FALSE, "initializing"),
                               Replied("pjsk_list", FALSE, "initializing")}
                  /\ UNCHANGED <<cache, prev>>
       /\ (~_initialized /\ _initialized') =>
            /\ init_pc = "gather"
            /\ resource_pc = "done" /\ font_pc = "done"
            /\ batch = "returned" /\ last_load.result = "ok"]_vars

\* C10 witness: initialize() failed, and a command that arrived afterwards
\* was answered with the initializing reply.
C10_Witness ==
    /\ init_pc = "failed"
    /\ ~_initialized
    /\ cmd = Replied("pjsk", FALSE, "initializing")
    /\ rcall = NoRender


C12_AtMostTenInFlight ==
    /\ [](Cardinality(Holding) <= SemaphoreLimit)
    /\ [](Waiting # {} => Cardinality(Holding) = SemaphoreLimit)
    /\ [](\A i \in DownloadIds : i <= SemaphoreLimit => i \notin Waiting)
    /\ \A i \in {j \in DownloadIds : j > SemaphoreLimit} :
          (i \in Waiting) ~> (i \in Holding)

\* C12 witness: of more than 10 downloads one has finished, 10 hold a slot,
\* among them one that came after the tenth, and the last one waits.
C12_Witness ==
    /\ Len(dl) > SemaphoreLimit + 1
    /\ Cardinality(Holding) = SemaphoreLimit
    /\ (SemaphoreLimit + 1) \in Holding
    /\ sem_waiters = <<Len(dl)>>
    /\ Cardinality(Released) = 1

\* The descriptors of the catalog, and those with a given id string.
Descriptors == {LOADED_STICKER_INFO[i] : i \in 1..Len(LOADED_STICKER_INFO)}
WithId(sticker_id) == {x \in Descriptors : x.sticker_id = sticker_id}

\* The selection was made by the pjsk command that has replied.
SelectedByCommand ==
    /\ selection.by = "pjsk"
    /\ cmd.name = "pjsk" /\ cmd.pc = "replied" /\ cmd.selected

C16_NoSilentDefault ==
    /\ [](resolved.pc = "returned" /\ resolved.by # "" =>
            LET value == resolved.value
                out == resolved.out
                given == value \notin {NoValue, <<>>}
            IN  /\ given =>
                      \/ /\ out.how = "value"
                         /\ expected(resolved.expected_type, value)
                              = Converted(out.value)
                      \/ /\ out.how = "offset"
                         /\ value[1] = "^"
                         /\ expected(resolved.expected_type, Tail(value))
                              = Converted(out.value - resolved.default)
                      \/ /\ out.how = "raised"
                         /\ out.error = value
                /\ out.how = "default" =>
                      (~given /\ out.value = resolved.default))
    /\ [](resolved.by = "pjsk" /\ resolved.out.how = "raised" =>
            (cmd.pc = "replied" /\ cmd.reply = "value_error"))
    /\ [][(cmd'.pc = "replied" /\ cmd'.reply = "value_error") =>
            UNCHANGED renderVars]_vars

\* C16 witness: a pjsk command with the size "^x" replied that the value
\* could not be parsed; the error carries "^x".
C16_Witness ==
    /\ resolved.by = "pjsk"
    /\ resolved.value = <<"^", "x">>
    /\ resolved.out = Raised(<<"^", "x">>)
    /\ cmd.pc = "replied" /\ cmd.reply = "value_error"

\* The first present value among the override and the default.
FirstPresent(override, default) ==
    IF override # Unset THEN override[1] ELSE default

\* Every field but the font size is the override when one is given, else
\* the descriptor's default, else the global default.
OtherFieldsFirstPresent(c) ==
    LET default_text == c.info.default_text
    IN  /\ c.out.text = FirstPresent(c.o.text, default_text.text)
        /\ c.out.x = FirstPresent(c.o.x, default_text.x)
        /\ c.out.y = FirstPresent(c.o.y, default_text.y)
        /\ c.out.rotate = FirstPresent(c.o.rotate, 0)
        /\ c.out.font_color = FirstPresent(c.o.font_color, c.info.color)
        /\ c.out.stroke_color
             = FirstPresent(c.o.stroke_color, DEFAULT_STROKE_COLOR)
        /\ c.out.stroke_width
             = FirstPresent(c.o.stroke_width, DEFAULT_STROKE_WIDTH)
        /\ c.out.line_spacing
             = FirstPresent(c.o.line_spacing, DEFAULT_LINE_SPACING)

\* The size Text Fit computes against the descriptor's default size.
AutoFitSize(c) ==
    auto_adjust_font_size(c.out.text, c.info.default_text.s, c.out.rotate,
                          DEFAULT_WIDTH, DefaultMinSize)

\* C17 as stated: every field of the result of make_sticker_render_kwargs,
\* the font size included, is the override when one is given; the size
\* Text Fit computes is used only when no font_size is given and auto_adjust
\* is set.
C17_OverrideAlwaysWins ==
    (kw.by # "" /\ kw.pc = "returned") =>
        /\ OtherFieldsFirstPresent(kw)
        /\ kw.out.font_size =
             IF kw.o.font_size # Unset THEN kw.o.font_size[1]
             ELSE IF kw.auto_adjust THEN AutoFitSize(kw)
             ELSE kw.info.default_text.s

\* C17: every field of the result but the font size is the override when
\* one is given, else the descriptor's default, else the global default.
\* The font size is the size Text Fit computes against the descriptor's
\* default size whenever auto_adjust is set, whatever font_size is given;
\* without auto_adjust it is font_size when given, else the descriptor's
\* default size.
C17_OverrideWinsUnlessAutoAdjust ==
    (kw.by # "" /\ kw.pc = "returned") =>
        /\ OtherFieldsFirstPresent(kw)
        /\ kw.out.font_size =
             IF kw.auto_adjust THEN AutoFitSize(kw)
             ELSE FirstPresent(kw.o.font_size, kw.info.default_text.s)

\* C17 witness: a call without auto_adjust that overrides the text, the
\* rotation and the font size returned; and the result has the overrides.
C17_Witness ==
    /\ kw.by = "caller" /\ kw.pc = "returned"
    /\ ~kw.auto_adjust
    /\ kw.o.font_size = Some(40) /\ kw.out.font_size = 40
    /\ kw.o.text = Some("wide") /\ kw.out.text = "wide"
    /\ kw.o.rotate # Unset /\ kw.out.rotate = 90 * FloatUnit
    /\ kw.o.x = Unset /\ kw.out.x = kw.info.default_text.x

\* C18 as stated: auto_adjust_font_size returns a size between min_size
\* and the size it starts from, for every text, rotation, width and start,
\* also when make_sticker_render_kwargs starts it from a descriptor's
\* default size at or below min_size.
C18_FitWithinMinAndStart ==
    /\ (fit.by # "" /\ fit.pc = "returned") =>
          (fit.min_size <= fit.out /\ fit.out <= fit.size)
    /\ (kw.by # "" /\ kw.pc = "returned" /\ kw.auto_adjust) =>
          /\ DefaultMinSize <= kw.out.font_size
          /\ kw.out.font_size <= kw.info.default_text.s

\* C18: auto_adjust_font_size never returns more than the size it starts
\* from; from a start above min_size it returns a size of at least
\* min_size, which fits the width or is min_size itself, and a start at or
\* below min_size is returned as it is; so for the font size that
\* make_sticker_render_kwargs fits from the descriptor's default size.
C18_FitWithinStart ==
    /\ (fit.by # "" /\ fit.pc = "returned") =>
          /\ fit.out <= fit.size
          /\ fit.size > fit.min_size =>
                /\ fit.min_size <= fit.out
                /\ \/ fit.out = fit.min_size
                   \/ fits(fit.text, fit.out, fit.rotate_deg, fit.width)
          /\ fit.size <= fit.min_size => fit.out = fit.size
    /\ (kw.by # "" /\ kw.pc = "returned" /\ kw.auto_adjust) =>
          LET start == kw.info.default_text.s
          IN  /\ kw.out.font_size <= start
              /\ start > DefaultMinSize => DefaultMinSize <= kw.out.font_size
              /\ start <= DefaultMinSize => kw.out.font_size = start

\* C18 witness: a text too wide at the start size was shrunk to a size
\* strictly between min_size and the start.
C18_Witness ==
    /\ fit.by = "caller" /\ fit.pc = "returned"
    /\ fit.min_size < fit.out /\ fit.out < fit.size
    /\ ~fits(fit.text, fit.size, fit.rotate_deg, fit.width)

\* ---- claims about the browser session

\* C19: creation and teardown of the session are mutually exclusive, and
\* the session is shared.  At most one task is inside get_browser_context
\* or close_browser past the lock, and it holds the lock.  As long as no
\* await raised, no engine got disconnected and close_browser was not
\* called, at most one engine is launched and one context created, and
\* every call of get_browser_context that returned, whether it found no
\* session, waited for the creation or came later, returned that context.
C19_OneSharedSession ==
    /\ Cardinality({t \in Tasks : task[t].pc \in InProgress}) <= 1
    /\ \A t \in Tasks : task[t].pc \in InProgress => lock_owner = t
    /\ ~disturbed =>
          /\ launches <= 1
          /\ creations <= 1
          /\ \A t \in Tasks :
                task[t].pc = "returned" =>
                   /\ launches = 1
                   /\ creations = 1
                   /\ task[t].result # NoContext
                   /\ task[t].result = _browser_context
                   /\ is_connected(task[t].result.engine)

\* C19 witness: two captures called get_browser_context while no session
\* existed, the second waited for the lock while the first created the
\* session, and both returned the one context of the one engine.
C19_Witness ==
    /\ ~disturbed
    /\ task[1].pc = "returned" /\ ~task[1].waited
    /\ task[2].pc = "returned" /\ task[2].waited
    /\ task[1].result = task[2].result
    /\ task[1].result # NoContext
    /\ launches = 1 /\ creations = 1

\* C20: get_browser_context checks that the engine is connected before
\* every use.  It calls new_context only on a connected engine, it returns
\* only a context of a connected engine, and once the engine of the session
\* is disconnected a later call returns a context of a connected engine.
C20_LivenessCheckBeforeUse ==
    /\ [][\A t \in Tasks :
            (task'[t].pc = "new_context" /\ task[t].pc # "new_context") =>
               is_connected(_browser)']_vars
    /\ [][\A t \in Tasks :
            (task'[t].pc = "returned" /\ task[t].pc # "returned") =>
               is_connected(task[t].result.engine)']_vars
    /\ (_browser # NoEngine /\ ~is_connected(_browser)) ~>
          (\E t \in Tasks : /\ task[t].pc = "returned"
                            /\ is_connected(task[t].result.engine))

\* ---- the catalog across loads

\* The catalog is whole: sorted by lower-cased character, with the ids
\* "1".."N".
WholeCatalog(catalog) ==
    /\ \A i \in 1..(Len(catalog) - 1) :
          str_le(lower(catalog[i].character), lower(catalog[i + 1].character))
    /\ \A i \in 1..Len(catalog) : catalog[i].sticker_id = ToString(i)

\* C27: the in-memory catalog changes only through a successful load, and
\* then wholesale: a load_sticker_info call that fails (the fetch failed
\* and there is no persisted copy, the text is no JSON, or an entry fails
\* validation) leaves the catalog exactly as it was before the call, and
\* what a load leaves is never a partially populated or unsorted catalog
\* nor one with ids other than 1..N.
C27_FailedLoadKeepsCatalog ==
    [][/\ last_load'.result # "ok" =>
             LOADED_STICKER_INFO' = LOADED_STICKER_INFO
       /\ WholeCatalog(LOADED_STICKER_INFO')]_vars

\* ---- the grids and the help panel side by side

\* Character filters: a character of the catalog and the two strings the
\* other operations use as their keys, which are filters of no descriptor.
FilterChars == {"miku", "all_characters", "help"}
HelpTexts == {"usage", "usage2"}

get_character_stickers_grid_filtered ==
    get_character_stickers_grid_of(FilterChars)

\* render.get_all_characters_grid(), called on its own
call_get_all_characters_grid ==
    /\ get_all_characters_grid
    /\ UNCHANGED <<fetchVars, catalogVars, pluginVars, paramVars, sessionVars,
                   extVars>>

\* render.get_help(text): the key is the fixed string "help".
get_help ==
    /\ \E text \in HelpTexts :
          enter("help", <<<<"text", text>>>>, <<"help">>, "jpeg")
    /\ UNCHANGED <<fetchVars, catalogVars, pluginVars, paramVars, sessionVars,
                   extVars>>

AliasNext ==
    \/ get_character_stickers_grid_filtered
    \/ call_get_all_characters_grid
    \/ get_help
    \/ CacheLookup
    \/ Capture
    \/ WriteCache

\* C29: cache entries of different render operations never alias: in any
\* sequence of all-characters grid, help and character grid renders, with
\* any character filter (the strings "all_characters" and "help" and
\* filters of no descriptor included), the bytes an operation returns for
\* an input come from a capture of that operation for that input; and a
\* character grid render neither answers from nor writes the cache entry
\* of the all-characters grid or of the help panel.
C29_NoAliasing ==
    /\ [](rcall.pc = "done" =>
             rcall.result.img = Image(rcall.op, rcall.arg))
    /\ [][rcall.op = "character_grid" =>
             /\ cache'[AllCharactersName] = cache[AllCharactersName]
             /\ cache'[HelpName] = cache[HelpName]
             /\ rcall'.hit =>
                   Name(rcall.key, rcall.ext) \notin
                       {AllCharactersName, HelpName}]_vars

\* ---- the plugin as the host runs it

\* The calls main.py makes before initialize() has succeeded: no line of
\* main.py (or of any other module) calls init_data_folder.
MainNext ==
    \/ initialize
    \/ prepare_resource
    \/ pjsk_generate
    \/ pjsk_list

\* C26: the data root and its font, asset, cache and catalog paths are
\* initialized before the asset acquirer or the content cache first uses
\* them: in every execution of the plugin init_data_folder has run before
\* prepare_resource dereferences DATA_FOLDER, so that prepare_resource gets
\* past ensure_directories and initialize() can succeed.
C26_FoldersSetBeforeUse ==
    init_pc \notin {"new", "prepare"} => DATA_FOLDER

(***************************************************************************)
(* Pages: capture_with_playwright, await by await                          *)
(***************************************************************************)
MaxPages == 3

\* The tasks that capture at the same time
Capturers == {"c1", "c2"}
NoPage == 0

\* cache_key of a capture: None (written <<>>) or the key of the grid
CaptureKeys == {<<>>, <<"all_characters">>}

\* The awaits of the try block, in order.  `assert element` belongs to
\* wait_for_selector: a selector that yields no element raises there.
TrySteps ==
    <<"route_file", "route_root", "goto", "set_content", "wait_for_selector",
      "screenshot">>
TryPcs == {TrySteps[i] : i \in 1..Len(TrySteps)}
step_after(pc) ==
    LET i == CHOOSE j \in 1..Len(TrySteps) : TrySteps[j] = pc
    IN IF i = Len(TrySteps) THEN "finally" ELSE TrySteps[i + 1]

NoCapture ==
    [pc |-> "idle", key |-> <<>>, page |-> NoPage, opened |-> 0,
     img |-> None, raised_at |-> "", closed |-> FALSE, wrote |-> "none"]

CaptureIdle ==
    /\ pages = {}
    /\ new_pages = 0
    /\ capt = [t \in Capturers |-> NoCapture]

Returned_or_raised(c) == c.pc \in {"idle", "returned", "raised"}

\* A caller (capture_template, capture_sticker) calls capture_with_playwright
capture_with_playwright(t) ==
    /\ Returned_or_raised(capt[t])
    /\ new_pages < MaxPages
    /\ \E key \in CaptureKeys :
          capt' = [capt EXCEPT ![t] =
                     [NoCapture EXCEPT !.pc = "get_browser_context",
                                       !.key = key]]
    /\ UNCHANGED <<pages, new_pages>>
    /\ UNCHANGED <<fetchVars, catalogVars, renderVars, pluginVars, paramVars,
                   sessionVars, exceptCapture>>

\* `context = await get_browser_context()` returns the shared context or
\* raises what the launch raised; no page exists yet.
get_browser_context_done(t) ==
    /\ capt[t].pc = "get_browser_context"
    /\ \E ok \in BOOLEAN :
          capt' = [capt EXCEPT ![t] =
                     IF ok THEN [@ EXCEPT !.pc = "new_page"]
                     ELSE [@ EXCEPT !.pc = "raised",
                                    !.raised_at = "get_browser_context"]]
    /\ UNCHANGED <<pages, new_pages>>
    /\ UNCHANGED <<fetchVars, catalogVars, renderVars, pluginVars, paramVars,
                   sessionVars, exceptCapture>>

\* `page = await context.new_page()` returns a page the context did not
\* have before.
new_page_returns(t) ==
    /\ capt[t].pc = "new_page"
    /\ new_pages < MaxPages
    /\ new_pages' = new_pages + 1
    /\ pages' = pages \cup {new_pages + 1}
    /\ capt' = [capt EXCEPT ![t] =
                  [@ EXCEPT !.pc = TrySteps[1], !.page = new_pages + 1,
                            !.opened = @ + 1]]
    /\ UNCHANGED <<fetchVars, catalogVars, renderVars, pluginVars, paramVars,
                   sessionVars, exceptCapture>>

\* new_page raises: it is called before the try block, and there is no page
\* to close.
new_page_raises(t) ==
    /\ capt[t].pc = "new_page"
    /\ capt' = [capt EXCEPT ![t] =
                  [@ EXCEPT !.pc = "raised", !.raised_at = "new_page"]]
    /\ UNCHANGED <<pages, new_pages>>
    /\ UNCHANGED <<fetchVars, catalogVars, renderVars, pluginVars, paramVars,
                   sessionVars, exceptCapture>>

\* An await of the try block returns; the screenshot returns the image.
try_returns(t) ==
    /\ capt[t].pc \in TryPcs
    /\ capt' = [capt EXCEPT ![t] =
                  [@ EXCEPT !.pc = step_after(capt[t].pc),
                            !.img = IF capt[t].pc = "screenshot"
                                    THEN Whole([op |-> "all_characters",
                                                what |-> {}])
                                    ELSE @]]
    /\ UNCHANGED <<pages, new_pages>>
    /\ UNCHANGED <<fetchVars, catalogVars, renderVars, pluginVars, paramVars,
                   sessionVars, exceptCapture>>

\* Where control goes when an await of the try block raises: into the
\* finally clause, with the exception pending.
leaves_try_unclosed(c) == [c EXCEPT !.pc = "raised", !.raised_at = c.pc]

leaves_try(c) == [c EXCEPT !.pc = "finally", !.raised_at = c.pc]

\* An await of the try block raises (a timeout, a navigation error, no
\* element for the selector, a cancellation).
try_raises(t) ==
    /\ capt[t].pc \in TryPcs
    /\ capt' = [capt EXCEPT ![t] = leaves_try(capt[t])]
    /\ UNCHANGED <<pages, new_pages>>
    /\ UNCHANGED <<fetchVars, catalogVars, renderVars, pluginVars, paramVars,
                   sessionVars, exceptCapture>>

\* `finally: await page.close()`: the page is closed.  With no exception
\* pending control goes on to the write-through or to `return img`;
\* otherwise the pending exception leaves the function.  page.close()
\* raises only when the page is gone already (the engine died), and then
\* that exception leaves the function.
page_close(t) ==
    /\ capt[t].pc = "finally"
    /\ pages' = pages \ {capt[t].page}
    /\ \E ok \in BOOLEAN :
          capt' = [capt EXCEPT ![t] =
                     IF capt[t].raised_at # ""
                     THEN [@ EXCEPT !.pc = "raised", !.closed = TRUE]
                     ELSE IF ~ok
                     THEN [@ EXCEPT !.pc = "raised", !.closed = TRUE,
                                    !.raised_at = "close"]
                     ELSE [@ EXCEPT
                             !.pc = IF writes_through(use_cache, capt[t].key)
                                    THEN "write_cache" ELSE "returned",
                             !.closed = TRUE]]
    /\ UNCHANGED new_pages
    /\ UNCHANGED <<fetchVars, catalogVars, renderVars, pluginVars, paramVars,
                   sessionVars, exceptCapture>>

\* `await write_cache(f"{cache_key}.{image_type}", img)` and `return img`
capture_write_cache(t) ==
    /\ capt[t].pc = "write_cache"
    /\ \E how \in CacheWriteOutcomes :
          /\ cache' = [cache EXCEPT ![Name(capt[t].key, "jpeg")] =
                                       write_cache(@, capt[t].img, how)]
          /\ capt' = [capt EXCEPT ![t] =
                        [@ EXCEPT !.pc = "returned", !.wrote = how]]
    /\ UNCHANGED <<pages, new_pages>>
    /\ UNCHANGED <<hash_seed, use_cache, rcall, prev>>
    /\ UNCHANGED <<fetchVars, catalogVars, pluginVars, paramVars, sessionVars,
                   exceptCapture>>

CaptureNext ==
    \E t \in Capturers :
        \/ capture_with_playwright(t)
        \/ get_browser_context_done(t)
        \/ new_page_returns(t)
        \/ new_page_raises(t)
        \/ try_returns(t)
        \/ try_raises(t)
        \/ page_close(t)
        \/ capture_write_cache(t)

\* ---- claims about pages

\* C21: every capture opens one fresh page and closes it on every path.  A
\* capture that is past new_page has opened exactly one page, and no other
\* caller has that page; once capture_with_playwright has returned or
\* raised, the page it opened is closed, so that no page is open when all
\* callers have finished; and the cache is written by a capture only after
\* its screenshot returned the image and its page was closed.
C21_PageClosedOnEveryPath ==
    /\ \A t \in Capturers :
          LET c == capt[t] IN
          /\ c.opened = IF c.page = NoPage THEN 0 ELSE 1
          /\ \A u \in Capturers \ {t} :
                c.page # NoPage => capt[u].page # c.page
          /\ Returned_or_raised(c) => c.page \notin pages
          /\ (c.pc = "write_cache" \/ c.wrote # "none") =>
                /\ c.img = Whole([op |-> "all_characters", what |-> {}])
                /\ c.raised_at = ""
                /\ c.closed
          /\ c.pc = "returned" => c.img # None
    /\ (\A t \in Capturers : Returned_or_raised(capt[t])) => pages = {}

\* C21 happens: one capture failed while it waited for the target element
\* and another one returned the image and wrote it; both pages are closed.
C21_Witness ==
    \E t, u \in Capturers :
        /\ capt[t].pc = "raised" /\ capt[t].raised_at = "wait_for_selector"
        /\ capt[t].page # NoPage /\ capt[t].page \notin pages
        /\ capt[u].pc = "returned" /\ capt[u].wrote = "ok"
        /\ capt[u].page # NoPage /\ capt[u].page \notin pages
        /\ pages = {}

(***************************************************************************)
(* Router: to_router_url, file_router's path                               *)
(***************************************************************************)
MaxSegments == 3

\* Names of directories and files.  A POSIX file name may hold a backslash.
SegmentNames == {"p", "d", "plugin", "a", "b\\a"}

\* Absolute paths, as the sequence of their segments
Paths == UNION {[1..n -> SegmentNames] : n \in 1..MaxSegments}

\* Where resource.PLUGIN_DIR and resource.DATA_FOLDER are: side by side (the
\* host's layout), or one inside the other.
Layouts ==
    {[plugin_dir |-> <<"p">>, data_folder |-> <<"d">>],
     [plugin_dir |-> <<"p">>, data_folder |-> <<"p", "d">>],
     [plugin_dir |-> <<"d", "p">>, data_folder |-> <<"d">>]}

\* A file below the directory `root`
is_under(path, root) ==
    /\ Len(path) > Len(root)
    /\ SubSeq(path, 1, Len(root)) = root

\* Path.relative_to, when it does not raise ValueError
relative_to(path, root) == SubSeq(path, Len(root) + 1, Len(path))

\* .replace("\\", "/") on the text of a relative path: a backslash inside a
\* name becomes a separator.
slashes_of(name) == IF name = "b\\a" THEN <<"b", "a">> ELSE <<name>>
RECURSIVE replace(_)
replace(rel) ==
    IF rel = <<>> THEN <<>> ELSE slashes_of(Head(rel)) \o replace(Tail(rel))

\* PLUGIN_ROUTER_PREFIX, without its slash
PLUGIN_ROUTER_PREFIX == "plugin"

\* render.to_router_url: the URL's path after ROUTER_BASE_URL, as the
\* sequence of its segments.
to_router_url(path, l) ==
    IF is_under(path, l.plugin_dir)
    THEN <<PLUGIN_ROUTER_PREFIX>> \o replace(relative_to(path, l.plugin_dir))
    ELSE IF is_under(path, l.data_folder)
    THEN replace(relative_to(path, l.data_folder))
    ELSE <<path[Len(path)]>>

\* url_path.startswith(PLUGIN_ROUTER_PREFIX) in file_router
startswith_prefix(url) == Len(url) >= 2 /\ url[1] = PLUGIN_ROUTER_PREFIX

\* The path file_router reads for a request
file_router_path(url, l) ==
    IF startswith_prefix(url)
    THEN l.plugin_dir \o Tail(url)
    ELSE l.data_folder \o url

NoConv ==
    [pc |-> "idle", layout |-> [plugin_dir |-> <<>>, data_folder |-> <<>>],
     path |-> <<>>, url |-> <<>>, file |-> <<>>]

RouterIdle == conv = NoConv

\* A template is about to be rendered with a local file.
RouterInit ==
    \E l \in Layouts, path \in Paths :
        conv = [NoConv EXCEPT !.pc = "called", !.layout = l, !.path = path]

\* make_sticker_render_kwargs calls to_router_url(path)
call_to_router_url ==
    /\ conv.pc = "called"
    /\ conv' = [conv EXCEPT !.pc = "url",
                            !.url = to_router_url(conv.path, conv.layout)]
    /\ UNCHANGED <<fetchVars, catalogVars, renderVars, pluginVars, paramVars,
                   sessionVars, exceptRouter>>

\* The page requests the URL and file_router picks the file to read.
call_file_router ==
    /\ conv.pc = "url"
    /\ conv' = [conv EXCEPT !.pc = "routed",
                            !.file = file_router_path(conv.url, conv.layout)]
    /\ UNCHANGED <<fetchVars, catalogVars, renderVars, pluginVars, paramVars,
                   sessionVars, exceptRouter>>

RouterNext == call_to_router_url \/ call_file_router

\* ---- claims about the router

\* The path is inside one of the two local roots.
InLocalRoots(c) ==
    \/ is_under(c.path, c.layout.plugin_dir)
    \/ is_under(c.path, c.layout.data_folder)

\* C22: the mapping of paths to virtual URLs round-trips within the two
\* local roots: for a file path under the data root or under the plugin
\* directory, file_router reads, for the URL to_router_url made of the path,
\* exactly that file, also when the first segment of a data-root path is
\* the reserved prefix "plugin"; and no two paths inside the roots have the
\* same URL.
C22_RoundTrip ==
    /\ (conv.pc = "routed" /\ InLocalRoots(conv)) => conv.file = conv.path
    /\ conv.pc = "routed" =>
          \A q \in Paths :
              (/\ InLocalRoots(conv)
               /\ InLocalRoots([conv EXCEPT !.path = q])
               /\ to_router_url(q, conv.layout) = conv.url) => q = conv.path

(***************************************************************************)
(* Routes: page.route, root_router, file_router                            *)
(***************************************************************************)
\* Origins a page may ask: the virtual origin of ROUTER_BASE_URL and any
\* other one.
Origins == {"https://pjsk.local", "https://other.example"}
ROUTER_BASE_URL == "https://pjsk.local"

\* The paths of request URLs: the root, or segments
UrlPaths == {<<>>} \cup Paths

\* The markup is an argument of capture_with_playwright: the URLs the page
\* asks for are the ones the markup names.
Requests ==
    [origin : Origins, path : UrlPaths, layout : Layouts, readable : BOOLEAN]

\* page.route(f"{ROUTER_BASE_URL}**/*", file_router): the glob matches every
\* URL of the virtual origin.
matches_file_route(r) == r.origin = ROUTER_BASE_URL

\* page.route(ROUTER_BASE_URL, root_router): the URL of the origin's root
matches_root_route(r) == r.origin = ROUTER_BASE_URL /\ r.path = <<>>

NoRequest ==
    [pc |-> "idle", origin |-> "", path |-> <<>>,
     layout |-> [plugin_dir |-> <<>>, data_folder |-> <<>>],
     readable |-> FALSE, by |-> "", how |-> "", body |-> <<>>]

RequestIdle == request = NoRequest

\* The page, its two routes installed, asks for a URL.
RequestInit ==
    \E r \in Requests :
        request = [NoRequest EXCEPT !.pc = "asked", !.origin = r.origin,
                                    !.path = r.path, !.layout = r.layout,
                                    !.readable = r.readable]

\* root_router: the route installed last is tried first.
root_router ==
    /\ request.pc = "asked"
    /\ matches_root_route(request)
    /\ request' = [request EXCEPT !.pc = "handled", !.by = "root_router",
                                  !.how = "fulfill",
                                  !.body = <<"<html></html>">>]
    /\ UNCHANGED <<fetchVars, catalogVars, renderVars, pluginVars, paramVars,
                   sessionVars, exceptRequest>>

\* file_router: read_bytes returned, and the route is fulfilled with the
\* file's bytes.
file_router_fulfills ==
    /\ request.pc = "asked"
    /\ ~matches_root_route(request) /\ matches_file_route(request)
    /\ request.readable
    /\ request' = [request EXCEPT
                     !.pc = "handled", !.by = "file_router", !.how = "fulfill",
                     !.body = file_router_path(request.path, request.layout)]
    /\ UNCHANGED <<fetchVars, catalogVars, renderVars, pluginVars, paramVars,
                   sessionVars, exceptRequest>>

\* file_router: read_bytes raised, and the route is aborted.
file_router_aborts ==
    /\ request.pc = "asked"
    /\ ~matches_root_route(request) /\ matches_file_route(request)
    /\ ~request.readable
    /\ request' = [request EXCEPT !.pc = "handled", !.by = "file_router",
                                  !.how = "abort"]
    /\ UNCHANGED <<fetchVars, catalogVars, renderVars, pluginVars, paramVars,
                   sessionVars, exceptRequest>>

\* No route of the page matches the URL: the browser sends the request.
not_routed ==
    /\ request.pc = "asked"
    /\ ~matches_root_route(request) /\ ~matches_file_route(request)
    /\ request' = [request EXCEPT !.pc = "handled", !.by = "",
                                  !.how = "network"]
    /\ UNCHANGED <<fetchVars, catalogVars, renderVars, pluginVars, paramVars,
                   sessionVars, exceptRequest>>

RequestNext ==
    \/ root_router
    \/ file_router_fulfills
    \/ file_router_aborts
    \/ not_routed

\* ---- claims about the routes

\* What the claim allows for a request: the empty document for the root of
\* the virtual origin, the bytes of the file under the plugin directory for
\* the reserved prefix, the bytes of the file under the data root
\* otherwise, or an abort when the file cannot be read.
ServedLocally(r) ==
    \/ r.how = "abort" /\ ~r.readable
    \/ /\ r.how = "fulfill"
       /\ IF r.path = <<>> THEN r.body = <<"<html></html>">>
          ELSE IF startswith_prefix(r.path)
          THEN r.body = r.layout.plugin_dir \o Tail(r.path)
          ELSE r.body = r.layout.data_folder \o r.path

\* C23: during a capture no request of the page reaches a real network:
\* every request is fulfilled from local data (the empty document for the
\* root of the virtual origin, bytes from the plugin directory for the
\* reserved prefix, bytes from the data root otherwise) or aborted when the
\* local file cannot be read; none is continued or passed through.
C23_NoRequestReachesNetwork ==
    request.pc = "handled" => ServedLocally(request)

(***************************************************************************)
(* Concurrent renders of one key: use_cache's wrapper, get_cache and       *)
(* write_cache, file operation by file operation.  anyio runs exists,      *)
(* read_bytes and write_bytes in worker threads, so the operations of two  *)
(* calls interleave.                                                       *)
(***************************************************************************)
MaxChunks == 2

Renderers == {"r1", "r2"}
Pictures == {"x", "y"}

\* The bytes a capture returns, in the chunks the file system transfers
\* them in: picture x is MaxChunks chunks long, picture y one chunk.
Blob(v) == [i \in 1..(IF v = "x" THEN MaxChunks ELSE 1) |-> <<v, i>>]
Blobs == {Blob(v) : v \in Pictures}

Hole == <<"zero", 0>>
NotRead == <<<<"not read", 0>>>>
NoneRead == <<<<"None", 0>>>>

\* The file after `chunk` was written at the position after `off`; a gap
\* before it reads as zero bytes.
RECURSIVE pwrite(_, _, _)
pwrite(bytes, off, chunk) ==
    IF off < Len(bytes) THEN [bytes EXCEPT ![off + 1] = chunk]
    ELSE IF off = Len(bytes) THEN Append(bytes, chunk)
    ELSE pwrite(Append(bytes, Hole), off, chunk)

NoRend ==
    [pc |-> "idle", got |-> NotRead, blob |-> <<>>, off |-> 0,
     result |-> NotRead]

RaceIdle ==
    /\ entry = [exists |-> FALSE, bytes |-> <<>>]
    /\ rend = [t \in Renderers |-> NoRend]
    /\ wrote_last = "none"

Over(c) == c.pc \in {"idle", "returned", "raised"}

\* use_cache's wrapper is called with the key; caching is enabled.
wrapper_called(t) ==
    /\ Over(rend[t])
    /\ rend' = [rend EXCEPT ![t] = [NoRend EXCEPT !.pc = "exists"]]
    /\ UNCHANGED <<entry, wrote_last>>
    /\ UNCHANGED <<fetchVars, catalogVars, renderVars, pluginVars, paramVars,
                   sessionVars, exceptRace>>

\* get_cache: `await path.exists()`
get_cache_exists(t) ==
    /\ rend[t].pc = "exists"
    /\ rend' = [rend EXCEPT ![t] =
                  IF entry.exists THEN [@ EXCEPT !.pc = "read_bytes"]
                  ELSE [@ EXCEPT !.pc = "capture", !.got = NoneRead]]
    /\ UNCHANGED <<entry, wrote_last>>
    /\ UNCHANGED <<fetchVars, catalogVars, renderVars, pluginVars, paramVars,
                   sessionVars, exceptRace>>

\* `if cached: return cached` in the wrapper
cached_is_truthy_never(bytes) == FALSE

cached_is_truthy(bytes) == bytes # <<>> /\ bytes # NoneRead

\* get_cache: `await path.read_bytes()` reads what the file holds, or
\* raises (and get_cache returns None); the wrapper returns a truthy
\* answer.
get_cache_read_bytes(t) ==
    /\ rend[t].pc = "read_bytes"
    /\ \E got \in {entry.bytes, NoneRead} :
          rend' = [rend EXCEPT ![t] =
                     IF cached_is_truthy(got)
                     THEN [@ EXCEPT !.pc = "returned", !.got = got,
                                    !.result = got]
                     ELSE [@ EXCEPT !.pc = "capture", !.got = got]]
    /\ UNCHANGED <<entry, wrote_last>>
    /\ UNCHANGED <<fetchVars, catalogVars, renderVars, pluginVars, paramVars,
                   sessionVars, exceptRace>>

\* The wrapped function captures: it has the image, or it raises.
race_capture(t) ==
    /\ rend[t].pc = "capture"
    /\ \/ \E v \in Pictures :
             rend' = [rend EXCEPT ![t] =
                        [@ EXCEPT !.pc = "open", !.blob = Blob(v)]]
       \/ rend' = [rend EXCEPT ![t] = [@ EXCEPT !.pc = "raised"]]
    /\ UNCHANGED <<entry, wrote_last>>
    /\ UNCHANGED <<fetchVars, catalogVars, renderVars, pluginVars, paramVars,
                   sessionVars, exceptRace>>

\* write_cache: write_bytes opens the file for writing, which creates or
\* empties it.
write_bytes_open(t) ==
    /\ rend[t].pc = "open"
    /\ entry' = [exists |-> TRUE, bytes |-> <<>>]
    /\ rend' = [rend EXCEPT ![t] = [@ EXCEPT !.pc = "write", !.off = 0]]
    /\ UNCHANGED wrote_last
    /\ UNCHANGED <<fetchVars, catalogVars, renderVars, pluginVars, paramVars,
                   sessionVars, exceptRace>>

\* write_cache: write_bytes writes the next chunk at its own position.
write_bytes_write(t) ==
    /\ rend[t].pc = "write"
    /\ LET c == rend[t] IN
       /\ entry' = [entry EXCEPT
                      !.bytes = pwrite(@, c.off, c.blob[c.off + 1])]
       /\ rend' = [rend EXCEPT ![t] =
                     [@ EXCEPT !.off = c.off + 1,
                               !.pc = IF c.off + 1 = Len(c.blob)
                                      THEN "close" ELSE "write"]]
    /\ UNCHANGED wrote_last
    /\ UNCHANGED <<fetchVars, catalogVars, renderVars, pluginVars, paramVars,
                   sessionVars, exceptRace>>

\* write_cache returns and capture_with_playwright returns the image.
write_bytes_close(t) ==
    /\ rend[t].pc = "close"
    /\ wrote_last' = t
    /\ rend' = [rend EXCEPT ![t] =
                  [@ EXCEPT !.pc = "returned", !.result = rend[t].blob]]
    /\ UNCHANGED entry
    /\ UNCHANGED <<fetchVars, catalogVars, renderVars, pluginVars, paramVars,
                   sessionVars, exceptRace>>

RaceNext ==
    \E t \in Renderers :
        \/ wrapper_called(t)
        \/ get_cache_exists(t)
        \/ get_cache_read_bytes(t)
        \/ race_capture(t)
        \/ write_bytes_open(t)
        \/ write_bytes_write(t)
        \/ write_bytes_close(t)

\* ---- claims about concurrent renders of one key

\* C24: concurrent renders of one key do not corrupt the cache: under any
\* interleaving of get_cache and write_cache calls for the key, get_cache
\* returns None or the complete blob of one write, never a truncated or a
\* mixed one; once all writers have finished the entry holds the complete
\* blob of the last writer; and a render returns a complete image.
C24_NoPartialBlob ==
    /\ \A t \in Renderers :
          /\ rend[t].got \in Blobs \cup {NotRead, NoneRead}
          /\ rend[t].pc = "returned" => rend[t].result \in Blobs
    /\ ((\A t \in Renderers : Over(rend[t])) /\ wrote_last # "none") =>
          entry.bytes = rend[wrote_last].blob

(***************************************************************************)
(* Configuration: PluginConfig, PJSKPlugin.__init__, the retries default   *)
(* of async_request                                                        *)
(***************************************************************************)
\* DEFAULT_CONFIG["pjsk_req_retry"]
DEFAULT_pjsk_req_retry == 1

NotCalled == MaxRetries + 1

ConfigIdle ==
    /\ plugin_config = DEFAULT_pjsk_req_retry
    /\ constructed = FALSE
    /\ fetch_under = NotCalled

\* PJSKPlugin.__init__(context, config): the host's configuration replaces
\* the dict of the module-level PluginConfig.
PJSKPlugin_init ==
    /\ \E n \in 0..MaxRetries : plugin_config' = n
    /\ constructed' = TRUE
    /\ UNCHANGED fetch_under
    /\ UNCHANGED <<fetchVars, catalogVars, renderVars, pluginVars, paramVars,
                   sessionVars, exceptConfig>>

\* The value of `retries` in a call that omits it: the default expression
\* config.pjsk_req_retry was evaluated once, when utils.py was imported.
omitted_retries_now(now) == now

omitted_retries(now) == retries_default

\* The asset acquirer (load_sticker_info, check_and_download_stickers,
\* check_and_download_font) calls async_request(*urls) and leaves retries
\* out.
acquirer_async_request ==
    /\ ~call.active
    /\ \E urls \in UrlLists \ {<<>>} :
          /\ req' = [urls |-> urls, retries |-> omitted_retries(plugin_config)]
          /\ call' = [active |-> TRUE, urls |-> urls,
                      retries |-> omitted_retries(plugin_config)]
    /\ attempts' = <<>>
    /\ outcome' = NoOutcome
    /\ fetch_under' = plugin_config
    /\ UNCHANGED <<environ_proxy, http_client, last_get>>
    /\ UNCHANGED <<plugin_config, constructed>>
    /\ UNCHANGED <<catalogVars, renderVars, pluginVars, paramVars,
                   sessionVars, exceptConfig>>

ConfigNext ==
    \/ PJSKPlugin_init
    \/ acquirer_async_request
    \/ Attempt

\* ---- claims about the configuration

\* C25: the retry count of a catalog, image or font fetch is the retry
\* count of the configuration in force when the fetch is called: once the
\* host's configuration has replaced the default one, an async_request call
\* of the asset acquirer, which leaves retries out, has the configured
\* count as its budget, and when every attempt failed every URL was tried
\* that count plus one times.
C25_ConfiguredRetries ==
    (constructed /\ fetch_under # NotCalled) =>
        /\ req.retries = fetch_under
        /\ outcome.kind = "error" =>
              \A p \in 1..Len(req.urls) : AttemptsOn(p) = fetch_under + 1

(***************************************************************************)
(* Shutdown: PJSKPlugin.terminate                                          *)
(***************************************************************************)
ShutdownIdle == terminated = FALSE

\* PJSKPlugin.terminate: it writes a log line and returns.
terminate ==
    /\ ~terminated
    /\ terminated' = TRUE
    /\ UNCHANGED <<fetchVars, catalogVars, renderVars, pluginVars, paramVars,
                   sessionVars, exceptShutdown>>

ShutdownNext ==
    \/ terminate
    \/ CallAsyncRequest
    \/ Attempt
    \/ SetEnvProxy

\* ---- claims about shutdown

\* C28: on shutdown the shared resources are released: when the plugin is
\* terminated the shared network client is closed (and a fetch made
\* afterwards creates a new client instead of using the closed one).
C28_ClientClosedOnTerminate ==
    [][(~terminated /\ terminated') => ~http_client'.open]_vars

\* The components that follow the browser session, idle
ExtIdle ==
    /\ CaptureIdle /\ RouterIdle /\ RequestIdle /\ RaceIdle /\ ConfigIdle
    /\ ShutdownIdle

(***************************************************************************)
(* Specifications: one per component                                       *)
(***************************************************************************)
InitFetch ==
    FetchInit /\ CatalogIdle /\ RenderIdle /\ PluginIdle /\ ParamIdle /\ SessionIdle /\ ExtIdle
SpecFetch == InitFetch /\ [][FetchNext]_vars

InitCatalog ==
    CatalogInit /\ FetchIdle /\ RenderIdle /\ PluginIdle /\ ParamIdle /\ SessionIdle /\ ExtIdle
SpecCatalog == InitCatalog /\ [][CatalogNext]_vars

InitSticker ==
    RenderInit /\ FetchIdle /\ CatalogIdle /\ PluginIdle /\ ParamIdle /\ SessionIdle /\ ExtIdle
SpecSticker == InitSticker /\ [][StickerNext]_vars

InitGrid ==
    /\ RenderInit
    /\ FetchIdle
    /\ remote = Garbage /\ persisted = Absent /\ last_load = NoLoad
    /\ LOADED_STICKER_INFO \in GridCatalogs
    /\ PluginIdle
    /\ ParamIdle /\ SessionIdle /\ ExtIdle
SpecGrid == InitGrid /\ [][GridNext]_vars

\* One process with caching enabled and a catalog of two descriptors
InitAlias ==
    /\ InitGrid
    /\ use_cache
    /\ hash_seed = "s0"
    /\ Len(LOADED_STICKER_INFO) = 2
    /\ LOADED_STICKER_INFO[2].character = "miku"
SpecAlias == InitAlias /\ [][AliasNext]_vars

InitPlugin ==
    /\ PluginInit
    /\ ~pjsk_clear_cache
    /\ files = NoFiles
    /\ FetchIdle
    /\ RenderIdle
    /\ ParamIdle /\ SessionIdle /\ ExtIdle
    /\ remote \in PluginDocs
    /\ persisted = Absent
    /\ LOADED_STICKER_INFO = <<>>
    /\ last_load = NoLoad
SpecPlugin == InitPlugin /\ [][PluginNext]_vars

\* A process that has just imported the modules and constructed the plugin
InitMain ==
    /\ PluginInit
    /\ ~DATA_FOLDER
    /\ FetchIdle
    /\ RenderInit
    /\ ParamIdle /\ SessionIdle /\ ExtIdle
    /\ remote \in PluginDocs
    /\ persisted = Absent
    /\ LOADED_STICKER_INFO = <<>>
    /\ last_load = NoLoad
SpecMain == InitMain /\ [][MainNext]_vars

InitPrepare ==
    /\ PluginInit
    /\ FetchIdle
    /\ RenderIdle
    /\ ParamIdle /\ SessionIdle /\ ExtIdle
    /\ remote \in PrepareDocs
    /\ persisted = Absent
    /\ LOADED_STICKER_INFO = <<>>
    /\ last_load = NoLoad
SpecPrepare == InitPrepare /\ [][PrepareNext]_vars

InitLimiter ==
    /\ LimiterInit
    /\ FetchIdle
    /\ CatalogIdle
    /\ RenderIdle
    /\ ParamIdle /\ SessionIdle /\ ExtIdle
SpecLimiter ==
    /\ InitLimiter
    /\ [][LimiterNext]_vars
    /\ WF_vars(wrapper_enter)
    /\ WF_vars(wrapper_exit)

InitSelect ==
    /\ FetchIdle
    /\ RenderIdle
    /\ ParamIdle /\ SessionIdle /\ ExtIdle
    /\ remote = Garbage /\ persisted = Absent /\ last_load = NoLoad
    /\ LOADED_STICKER_INFO \in SelectCatalogs
    /\ SelectInit
SpecSelect == InitSelect /\ [][SelectNext]_vars

InitResolve ==
    /\ FetchIdle
    /\ RenderIdle
    /\ resolved \in ResolveCalls /\ kw = NoKwargs /\ fit = NoFit
    /\ SessionIdle /\ ExtIdle
    /\ remote = Garbage /\ persisted = Absent /\ last_load = NoLoad
    /\ LOADED_STICKER_INFO \in {c \in SelectCatalogs : Len(c) = 1}
    /\ SelectInit
SpecResolve == InitResolve /\ [][ResolveNext]_vars

InitParams ==
    FetchIdle /\ CatalogIdle /\ RenderIdle /\ PluginIdle /\ ParamsInit /\ SessionIdle /\ ExtIdle
SpecParams == InitParams /\ [][ParamsNext]_vars

InitSession ==
    /\ SessionInit
    /\ FetchIdle /\ CatalogIdle /\ RenderIdle /\ PluginIdle /\ ParamIdle
    /\ ExtIdle
SpecSession == InitSession /\ [][SessionNext]_vars

InitCapture ==
    /\ FetchIdle /\ CatalogIdle /\ PluginIdle /\ ParamIdle /\ SessionIdle
    /\ hash_seed = "s0"
    /\ use_cache \in BOOLEAN
    /\ cache = [n \in CacheNames |-> NoFile]
    /\ rcall = NoRender
    /\ prev = NoRender
    /\ CaptureIdle /\ RouterIdle /\ RequestIdle /\ RaceIdle /\ ConfigIdle
    /\ ShutdownIdle
SpecCapture == InitCapture /\ [][CaptureNext]_vars

InitRouter ==
    /\ FetchIdle /\ CatalogIdle /\ RenderIdle /\ PluginIdle /\ ParamIdle
    /\ SessionIdle /\ CaptureIdle /\ RequestIdle /\ RaceIdle /\ ConfigIdle
    /\ ShutdownIdle
    /\ RouterInit
SpecRouter == InitRouter /\ [][RouterNext]_vars

InitRequest ==
    /\ FetchIdle /\ CatalogIdle /\ RenderIdle /\ PluginIdle /\ ParamIdle
    /\ SessionIdle /\ CaptureIdle /\ RouterIdle /\ RaceIdle /\ ConfigIdle
    /\ ShutdownIdle
    /\ RequestInit
SpecRequest == InitRequest /\ [][RequestNext]_vars

InitRace ==
    /\ FetchIdle /\ CatalogIdle /\ RenderIdle /\ PluginIdle /\ ParamIdle
    /\ SessionIdle /\ ExtIdle
SpecRace == InitRace /\ [][RaceNext]_vars

InitConfig ==
    /\ FetchInit /\ CatalogIdle /\ RenderIdle /\ PluginIdle /\ ParamIdle
    /\ SessionIdle /\ ExtIdle
SpecConfig == InitConfig /\ [][ConfigNext]_vars

InitShutdown ==
    /\ FetchInit /\ CatalogIdle /\ RenderIdle /\ PluginIdle /\ ParamIdle
    /\ SessionIdle /\ ExtIdle
SpecShutdown == InitShutdown /\ [][ShutdownNext]_vars

\* Captures alone: every await is over at some time, a caller that left
\* comes back, and an await that can return again and again does return.
SpecRecovery ==
    /\ InitSession
    /\ [][RecoveryNext]_vars
    /\ \A t \in Tasks :
          /\ WF_vars(call_get_browser_context(t))
          /\ WF_vars(wake(t))
          /\ WF_vars(goes_on(t))
          /\ WF_vars(new_context_raises(t))
          /\ SF_vars(start_returns(t))
          /\ SF_vars(launch_returns(t))
          /\ SF_vars(new_context_returns(t))

=============================================================================
